---- MODULE Spec2Model ----
(***************************************************************************)
(* Verification model of EastMoneyGuBaCrawler: the Redis-backed proxy pool *)
(* (core/proxy_manager.py) and the crawl orchestrator (core/crawler.py).   *)
(***************************************************************************)
EXTENDS Integers, Sequences, FiniteSets, TLC

\* ------------------------------------------------------------------ bounds
NumEndpoints == 4
NumCatalog == 2
SlowTicks == 80
min_threshold == 2
target_count == 3
max_count == 4
MaxRec == 2
MaxPages == 3
MaxPenalties == 2
MaxFailureCalls == 9
max_workers == 2

\* ------------------------------------------------------- program constants
ScoreFloor == 30
ScoreMax == 100
ScoreMin == 0
SuccessBonus == 5
FailurePenalty == 10
VerifyFloor == 50
TopHalfMin == 10
NoProxy == 0
FetchAttempts == 3
TenacityAttempts == 5
max_retries == 3
EmptyRetries == 2
duplicate_page_threshold == 2
ProbeRetries == 5
CountTolerance == 100
PageSize == 80

Endpoints == 1..NumEndpoints
PoolCatalog == 1..NumCatalog
RecordIds == 1..MaxRec
InitScores == {ScoreMax}
Workers == {"w1", "w2"}
Maintainer == "m"
Threads == Workers \cup {Maintainer}
Free == "free"
LatencyTicks == {0, SlowTicks}
UpdateKinds == BOOLEAN

Max2(a, b) == IF a >= b THEN a ELSE b
Min2(a, b) == IF a <= b THEN a ELSE b

VARIABLES pool, refill_lock, pc, loc, catalog, score0, fcall,
          total_pages, total_count, fut, res, cur, main_pc,
          consecutive_duplicate_pages, should_stop, store, consumeLog, finishLog, typeLog,
          probe, pw, col, wr

\* the proxy pool and its threads
pvars == <<pool, refill_lock, pc, loc, catalog, score0, fcall>>

\* one content-type pass of guba_comments.main
cvars == <<total_pages, total_count, fut, res, cur, main_pc,
           consecutive_duplicate_pages, should_stop, store, consumeLog, finishLog, typeLog>>

vars == <<pool, refill_lock, pc, loc, catalog, score0, fcall,
          total_pages, total_count, fut, res, cur, main_pc,
          consecutive_duplicate_pages, should_stop, store, consumeLog, finishLog, typeLog,
          probe, pw, col, wr>>

\* what the proxy manager's own steps never touch
aux0 == <<catalog, score0, cvars, probe, pw, col, wr>>

aux == <<aux0, fcall>>

\* ---------------------------------------------------------- Redis hash ops
count(h) == Cardinality(DOMAIN h)

hset(h, k, v) == [e \in (DOMAIN h) \cup {k} |-> IF e = k THEN v ELSE h[e]]

hdel(h, k) == [e \in (DOMAIN h) \ {k} |-> h[e]]

EmptyHash == [e \in {} |-> 0]

\* ------------------------------------------------------------ ProxyManager
\* verify_proxy's score for a candidate that passed, from its latency
\* (ticks = int(response_time * 20)).
VerifyScoreNoFloor(ticks) == ScoreMax - ticks
VerifyScore(ticks) == Max2(ScoreMax - ticks, VerifyFloor)

VerifyScores == {VerifyScore(t) : t \in LatencyTicks}

\* update_score's new score.
NewScoreUnclamped(score, success) ==
  IF success THEN score + SuccessBonus ELSE score - FailurePenalty

NewScore(score, success) ==
  IF success THEN Min2(ScoreMax, score + SuccessBonus)
  ELSE Max2(ScoreMin, score - FailurePenalty)

\* update_score's write: evict below the floor, else store.
StoreScoreNoEvict(h, p, score) == hset(h, p, score)
StoreScore(h, p, score) ==
  IF score < ScoreFloor THEN hdel(h, p) ELSE hset(h, p, score)

\* update_score as one thread runs it alone: hget, then hset or hdel
update_score(h, p, success) ==
  IF p \notin DOMAIN h THEN h ELSE StoreScore(h, p, NewScore(h[p], success))

\* remove_proxy: unconditional hdel.
RemoveNothing(h, p) == h

remove_proxy(h, p) == hdel(h, p)

\* add_proxy: hset of the verified score.
add_proxy(h, p, score) == hset(h, p, score)

\* get_all + the choice of get_random_proxy: the endpoints random.choice can
\* return from the snapshot h (sorted by score, top half when more than 10).
CandidatesAll(h) == DOMAIN h

Candidates(h) ==
  LET n == count(h)
      k == Max2(1, n \div 2)
  IN IF n > TopHalfMin
     THEN {e \in DOMAIN h : Cardinality({f \in DOMAIN h : h[f] > h[e]}) < k}
     ELSE DOMAIN h

LocInit ==
  [ret |-> NoProxy, grp_ret |-> "idle",
   us_proxy |-> NoProxy, us_score |-> 0, us_success |-> FALSE, us_ret |-> "idle",
   rf_target |-> 0, rf_new |-> {}, rf_dry |-> FALSE, rf_ret |-> "idle",
   rv_left |-> {}]

\* the thread that calls get_data, and the history of its running call of
\* get_soup_form_url: the attempt number, the proxies used, the kind of every
\* response, the pool size when the call began, the endpoints the call's own
\* refills inserted, the outcome of the fetch and of get_data's body
Fetcher == "w1"

NoCall ==
  [attempt |-> 0, used |-> {}, kinds |-> <<>>, before |-> 0, added |-> 0,
   out |-> "", proxy |-> NoProxy, gd_out |-> ""]

Set(t, field, val) == [loc EXCEPT ![t][field] = val]
Goto(t, label) == pc' = [pc EXCEPT ![t] = label]

\* ------------------------------------------------- get_random_proxy steps
\* entry: the first count() check, outside the lock
GrpCheckOp(t, retpc) ==
  /\ IF count(pool) < min_threshold THEN Goto(t, "grp_lock") ELSE Goto(t, "grp_pick")
  /\ loc' = Set(t, "grp_ret", retpc)
  /\ UNCHANGED <<pool, refill_lock, aux>>

\* a worker calls get_random_proxy
GrpCheck(t) ==
  /\ pc[t] = "idle"
  /\ t \in Workers
  /\ GrpCheckOp(t, "grp_done")

\* with self.refill_lock:
GrpLock(t) ==
  /\ pc[t] = "grp_lock"
  /\ refill_lock = Free
  /\ refill_lock' = t
  /\ Goto(t, "grp_recheck")
  /\ UNCHANGED <<pool, loc, aux>>

\* the test that both checks make
AlwaysShort(h) == TRUE

StillShort(h) == count(h) < min_threshold

\* second count() check, inside the lock
GrpRecheck(t) ==
  /\ pc[t] = "grp_recheck"
  /\ IF StillShort(pool)
     THEN /\ Goto(t, "rf_start")
          /\ loc' = [loc EXCEPT ![t].rf_target = target_count, ![t].rf_ret = "grp_unlock"]
     ELSE /\ Goto(t, "grp_unlock")
          /\ UNCHANGED <<loc, aux>>
  /\ UNCHANGED <<pool, refill_lock, aux>>

GrpUnlock(t) ==
  /\ pc[t] = "grp_unlock"
  /\ refill_lock' = Free
  /\ Goto(t, "grp_pick")
  /\ UNCHANGED <<pool, loc, aux>>

\* get_all() and random.choice
GrpPick(t) ==
  /\ pc[t] = "grp_pick"
  /\ IF DOMAIN pool = {}
     THEN loc' = Set(t, "ret", NoProxy)
     ELSE \E e \in Candidates(pool) :
            loc' = Set(t, "ret", e)
  /\ Goto(t, loc[t].grp_ret)
  /\ UNCHANGED <<pool, refill_lock, aux>>

\* the worker has its answer and goes on
GrpReturned(t) ==
  /\ pc[t] = "grp_done"
  /\ loc' = Set(t, "ret", NoProxy)
  /\ Goto(t, "idle")
  /\ UNCHANGED <<pool, refill_lock, aux>>

\* ------------------------------------------------------ refill_pool steps
RfStart(t) ==
  /\ pc[t] = "rf_start"
  /\ LET current == count(pool)
         needed == Min2(Max2(0, loc[t].rf_target - current), max_count - current)
     IN IF current >= max_count \/ needed = 0
        THEN Goto(t, loc[t].rf_ret)
        ELSE Goto(t, "rf_fetch")
  /\ UNCHANGED <<pool, refill_lock, loc, aux>>

\* new_ips: the candidates that are not in the pool
NewIps(raw, h) == raw \ DOMAIN h

\* fetch_raw_ips, then hkeys to drop the candidates already in the pool;
\* rf_dry says that the providers returned no candidate at all
RfFetch(t) ==
  /\ pc[t] = "rf_fetch"
  /\ \E raw \in SUBSET catalog :
       loc' = [loc EXCEPT ![t].rf_new = NewIps(raw, pool), ![t].rf_dry = (raw = {})]
  /\ Goto(t, "rf_verify")
  /\ UNCHANGED <<pool, refill_lock, aux>>

\* as_completed: a candidate that failed verification
RfVerifyFail(t) ==
  /\ pc[t] = "rf_verify"
  /\ \E ip \in loc[t].rf_new : loc' = Set(t, "rf_new", loc[t].rf_new \ {ip})
  /\ UNCHANGED <<pool, refill_lock, pc, aux>>

\* as_completed: a candidate that passed: add_proxy
RfVerifyAdd(t) ==
  /\ pc[t] = "rf_verify"
  /\ \E ip \in loc[t].rf_new, ticks \in LatencyTicks :
       /\ pool' = add_proxy(pool, ip, VerifyScore(ticks))
       /\ loc' = Set(t, "rf_new", loc[t].rf_new \ {ip})
       /\ fcall' = IF t = Fetcher /\ fcall.attempt > 0 /\ ip \notin DOMAIN pool
                   THEN [fcall EXCEPT !.added = fcall.added + 1]
                   ELSE fcall
  /\ Goto(t, "rf_count")
  /\ UNCHANGED <<refill_lock, aux0>>

\* the test after an insertion: current_count >= target_count or
\* current_count >= self.max_count
ReachedTarget(h, target) == count(h) >= target

ReachedLimit(h, target) == count(h) >= target \/ count(h) >= max_count

\* count() after an insertion: break at target_count or max_count
RfCount(t) ==
  /\ pc[t] = "rf_count"
  /\ IF ReachedLimit(pool, loc[t].rf_target)
     THEN /\ Goto(t, loc[t].rf_ret)
          /\ loc' = Set(t, "rf_new", {})
     ELSE /\ Goto(t, "rf_verify")
          /\ UNCHANGED <<loc, aux>>
  /\ UNCHANGED <<pool, refill_lock, aux>>

\* every candidate has been looked at
RfDone(t) ==
  /\ pc[t] = "rf_verify"
  /\ loc[t].rf_new = {}
  /\ Goto(t, loc[t].rf_ret)
  /\ loc' = Set(t, "rf_dry", FALSE)
  /\ UNCHANGED <<pool, refill_lock, aux>>

InRefill(t) == pc[t] \in {"rf_start", "rf_fetch", "rf_verify", "rf_count"}

\* ----------------------------------------------------- update_score steps
\* hget and the arithmetic, for a record that is present
UsReadOp(t, p, success, retpc) ==
  /\ p \in DOMAIN pool
  /\ Goto(t, "us_write")
  /\ loc' = [loc EXCEPT ![t].us_proxy = p,
                        ![t].us_score = NewScore(pool[p], success),
                        ![t].us_success = success,
                        ![t].us_ret = retpc]
  /\ UNCHANGED <<pool, refill_lock, aux>>

\* hget finds no record (current_score is None): update_score returns
UsAbsentOp(t, p, retpc) ==
  /\ p \notin DOMAIN pool
  /\ Goto(t, retpc)
  /\ UNCHANGED <<pool, refill_lock, loc, aux>>

\* a worker calls update_score
UsRead(t) ==
  /\ pc[t] = "idle"
  /\ t \in Workers
  /\ \E p \in catalog, success \in UpdateKinds : UsReadOp(t, p, success, "idle")

UsAbsent(t) ==
  /\ pc[t] = "idle"
  /\ t \in Workers
  /\ \E p \in catalog : UsAbsentOp(t, p, "idle")

\* hdel or hset
UsWrite(t) ==
  /\ pc[t] = "us_write"
  /\ pool' = StoreScore(pool, loc[t].us_proxy, loc[t].us_score)
  /\ loc' = [loc EXCEPT ![t].us_proxy = NoProxy, ![t].us_score = 0,
                        ![t].us_success = FALSE, ![t].us_ret = "idle"]
  /\ Goto(t, loc[t].us_ret)
  /\ UNCHANGED <<refill_lock, aux>>

\* ------------------------------------------------------- worker entry points
CallRemoveProxy(t) ==
  /\ pc[t] = "idle"
  /\ t \in Workers
  /\ \E p \in catalog : pool' = remove_proxy(pool, p)
  /\ UNCHANGED <<refill_lock, pc, loc, aux>>

\* ------------------------------------------------------ _maintenance_loop
\* count() at the top of an iteration: below the threshold, revalidate_pool
\* starts with get_all() and delete(cache_key)
MaintCheck(t) ==
  /\ pc[t] = "idle"
  /\ t = Maintainer
  /\ count(pool) < min_threshold
  /\ loc' = Set(t, "rv_left", DOMAIN pool)
  /\ pool' = EmptyHash
  /\ Goto(t, "rv_verify")
  /\ UNCHANGED <<refill_lock, aux>>

\* revalidate_pool: a proxy that fails verification is dropped
RvVerifyFail(t) ==
  /\ pc[t] = "rv_verify"
  /\ \E p \in loc[t].rv_left : loc' = Set(t, "rv_left", loc[t].rv_left \ {p})
  /\ UNCHANGED <<pool, refill_lock, pc, aux>>

\* revalidate_pool: a proxy that passes is re-added with its new score
RvVerifyAdd(t) ==
  /\ pc[t] = "rv_verify"
  /\ \E p \in loc[t].rv_left, ticks \in LatencyTicks :
       /\ pool' = add_proxy(pool, p, VerifyScore(ticks))
       /\ loc' = Set(t, "rv_left", loc[t].rv_left \ {p})
  /\ UNCHANGED <<refill_lock, pc, aux>>

\* after revalidate_pool: count() again, refill_pool if still short
MaintRecheck(t) ==
  /\ pc[t] = "rv_verify"
  /\ loc[t].rv_left = {}
  /\ IF count(pool) < min_threshold
     THEN /\ Goto(t, "rf_start")
          /\ loc' = [loc EXCEPT ![t].rf_target = target_count, ![t].rf_ret = "idle"]
     ELSE /\ Goto(t, "idle")
          /\ UNCHANGED <<loc, aux>>
  /\ UNCHANGED <<pool, refill_lock, aux>>

\* ------------------------------------------- guba_comments.get_soup_form_url
\* the call starts: attempt 1 of range(1, 4)
FetchStart(t) ==
  /\ pc[t] = "idle"
  /\ t = Fetcher
  /\ fcall' = [NoCall EXCEPT !.attempt = 1, !.before = count(pool)]
  /\ Goto(t, "f_acquire")
  /\ UNCHANGED <<pool, refill_lock, loc, aux0>>

\* proxies_to_use = self.proxy_pool.get_random_proxy()
FetchAcquire(t) ==
  /\ pc[t] = "f_acquire"
  /\ GrpCheckOp(t, "f_got")

\* the attempt is over: the proxy and the kind of its response are recorded
Used(t, kind) ==
  [fcall EXCEPT !.used = fcall.used \cup {loc[t].ret},
                !.kinds = Append(fcall.kinds, kind)]

\* a loop that returns (None, None) after any failed attempt
FetchGiveUp(t, c) ==
  /\ loc' = Set(t, "ret", NoProxy)
  /\ fcall' = [c EXCEPT !.out = "none"]
  /\ Goto(t, "f_end")

\* continue: the next attempt, or return (None, None) after the third
FetchContinue(t, c) ==
  /\ loc' = Set(t, "ret", NoProxy)
  /\ IF c.attempt >= FetchAttempts
     THEN /\ fcall' = [c EXCEPT !.out = "none"]
          /\ Goto(t, "f_end")
     ELSE /\ fcall' = [c EXCEPT !.attempt = c.attempt + 1]
          /\ Goto(t, "f_acquire")

\* the pool gave no proxy: raise NetworkException
FetchPoolExhausted(t) ==
  /\ pc[t] = "f_got"
  /\ loc[t].ret = NoProxy
  /\ fcall' = [fcall EXCEPT !.out = "raise"]
  /\ Goto(t, "f_end")
  /\ UNCHANGED <<pool, refill_lock, loc, aux0>>

\* status != 200 ("rejected" in kinds), a 200 page without "listitem" that
\* holds a captcha marker, or an exception of session.get: remove_proxy and
\* continue
FetchHardFailure(t) ==
  /\ pc[t] = "f_got"
  /\ loc[t].ret # NoProxy
  /\ \E kind \in {"rejected", "captcha", "exception"} :
       FetchContinue(t, Used(t, kind))
  /\ pool' = remove_proxy(pool, loc[t].ret)
  /\ UNCHANGED <<refill_lock, aux0>>

\* 200 without "listitem" and without a captcha marker: continue, the proxy
\* stays in the pool
FetchNoData(t) ==
  /\ pc[t] = "f_got"
  /\ loc[t].ret # NoProxy
  /\ FetchContinue(t, Used(t, "nodata"))
  /\ UNCHANGED <<pool, refill_lock, aux0>>

\* a fetch that reports the page it got: update_score(proxy, success=True)
AfterValidFetchReward(h, p) == update_score(h, p, TRUE)

\* the pool after an attempt that got the page: nothing is reported
AfterValidFetch(h, p) == h

\* 200 with "listitem": return the soup and the proxy it came through
FetchValid(t) ==
  /\ pc[t] = "f_got"
  /\ loc[t].ret # NoProxy
  /\ fcall' = [Used(t, "ok") EXCEPT !.out = "soup", !.proxy = loc[t].ret]
  /\ loc' = Set(t, "ret", NoProxy)
  /\ Goto(t, "f_end")
  /\ pool' = AfterValidFetch(pool, loc[t].ret)
  /\ UNCHANGED <<refill_lock, aux0>>

GetSoupStep(t) ==
  \/ FetchAcquire(t)
  \/ FetchPoolExhausted(t)
  \/ FetchHardFailure(t)
  \/ FetchNoData(t)
  \/ FetchValid(t)

\* ------------------------------------------------- guba_comments.get_data
\* what one execution of get_data's body gives for the fetch outcome f_out
\* ("soup" | "none" | "raise"), the page's payload and expected_total_count:
\* [kind |-> "list", ids, vetted] (return batch_data), "none" (the except
\* branch logs and returns None) or "raise_cc" (ContentChangedException)
Deviation(pl, expected) ==
  LET page_count == IF pl.has_count THEN pl.count ELSE 0
  IN IF page_count >= expected THEN page_count - expected
     ELSE expected - page_count

CountMismatchFrom(pl, expected) ==
  expected > 0 /\ Deviation(pl, expected) >= CountTolerance

CountMismatch(pl, expected) ==
  expected > 0 /\ Deviation(pl, expected) > CountTolerance

Vetted(pl) == pl.has_count /\ pl.nick_ok

NoneResult == [kind |-> "none", ids |-> {}, vetted |-> FALSE]
RaiseCC == [kind |-> "raise_cc", ids |-> {}, vetted |-> FALSE]
ListResult(ids, vetted) == [kind |-> "list", ids |-> ids, vetted |-> vetted]

RaiseNetworkException == [kind |-> "retry_error", ids |-> {}, vetted |-> FALSE]

SwallowNetworkException == NoneResult

get_data_body(f_out, pl, expected) ==
  IF f_out = "raise" THEN SwallowNetworkException
  ELSE IF f_out = "none" THEN SwallowNetworkException
  ELSE IF ~(pl.has_list /\ pl.has_re)
       THEN IF pl.marker = "nodata" THEN ListResult({}, FALSE)
            ELSE IF pl.marker = "verify" THEN RaiseCC
            ELSE SwallowNetworkException
  ELSE IF CountMismatch(pl, expected) THEN RaiseCC
  ELSE ListResult(pl.ids, Vetted(pl))

\* the payloads a page can carry when expected_total_count is expected
NoListPayloads ==
  {[has_list |-> hl, has_re |-> FALSE, marker |-> m, has_count |-> FALSE, count |-> 0,
    ids |-> {}, nick_ok |-> TRUE] : hl \in BOOLEAN, m \in {"nodata", "verify", "other"}}

ListPayloads(expected) ==
  {[has_list |-> TRUE, has_re |-> TRUE, marker |-> "other", has_count |-> hc,
    count |-> IF hc THEN expected + d ELSE 0, ids |-> ids,
    nick_ok |-> nk] :
      hc \in BOOLEAN, d \in {0, CountTolerance, CountTolerance + 1},
      ids \in SUBSET RecordIds, nk \in BOOLEAN}

Payloads(expected) == NoListPayloads \cup ListPayloads(expected)

ExpectedCounts == {0, PageSize, MaxPages * PageSize}

\* the results of the body for one fetch outcome, over the payloads the page
\* can carry
BodyResults(f_out, expected) ==
  {get_data_body(f_out, pl, expected) : pl \in Payloads(expected)}

\* get_data's body after get_soup_form_url came back
GetDataBody(t) ==
  /\ pc[t] = "f_end"
  /\ \E r \in UNION {BodyResults(fcall.out, expected) : expected \in ExpectedCounts} :
       fcall' = [fcall EXCEPT !.gd_out = r.kind]
  /\ Goto(t, "gd_done")
  /\ UNCHANGED <<pool, refill_lock, loc, aux0>>

\* the caller has the result; the thread is free for the next call
GetDataReturned(t) ==
  /\ pc[t] = "gd_done"
  /\ fcall' = NoCall
  /\ Goto(t, "idle")
  /\ UNCHANGED <<pool, refill_lock, loc, aux0>>

\* get_data under its tenacity decorator: the body runs again after a
\* ContentChangedException, at most TenacityAttempts times, then RetryError.
\* The set of results the call can give from attempt number attempt on.
RetryError == [kind |-> "retry_error", ids |-> {}, vetted |-> FALSE]

FetchOutcomes == {"soup", "none", "raise"}

BodyOutcomes(expected) == UNION {BodyResults(f, expected) : f \in FetchOutcomes}

RECURSIVE get_data(_, _)
get_data(attempt, expected) ==
  UNION {IF r.kind # "raise_cc" THEN {r}
         ELSE IF attempt >= TenacityAttempts THEN {RetryError}
         ELSE get_data(attempt + 1, expected) : r \in BodyOutcomes(expected)}

\* --------------------------------------- guba_comments._crawl_single_page
is_last_page(page, count_) == count_ > 0 /\ page * PageSize >= count_

\* not data_list: None or []
Falsy(r) == r.kind = "none" \/ (r.kind = "list" /\ r.ids = {})

\* the results the wrapper can return from the loop state (retry_count,
\* empty_retries) on
RECURSIVE crawl_single_page(_, _, _, _)
crawl_single_page(retry_count, empty_retries, page, count_) ==
  UNION {IF r.kind = "retry_error"
         THEN IF retry_count + 1 >= max_retries THEN {NoneResult}
              ELSE crawl_single_page(retry_count + 1, empty_retries, page, count_)
         ELSE IF Falsy(r) /\ is_last_page(page, count_)
         THEN IF empty_retries < EmptyRetries
              THEN crawl_single_page(retry_count, empty_retries + 1, page, count_)
              ELSE {ListResult({}, FALSE)}
         ELSE {r} : r \in get_data(1, count_)}

\* (total_pages, total_count) as get_total_pages returns them: the count of
\* the probe with ceil(count / 80) pages, or the fallback (1, 0)
FloorDiv(a, b) == a \div b

CeilDiv(a, b) == (a + b - 1) \div b

ProbeCounts(pages) ==
  {c \in {PageSize * (pages - 1) + 1, PageSize * pages} : CeilDiv(c, PageSize) = pages}
    \cup (IF pages = 1 THEN {0} ELSE {})

TotalCounts == UNION {ProbeCounts(pages) : pages \in 1..MaxPages}

CrawlOutcomes ==
  [page \in 1..MaxPages, count_ \in TotalCounts |-> crawl_single_page(0, 0, page, count_)]

\* one worker's call of _crawl_single_page, step by step: each step is one
\* execution of get_data's body. tn_attempt is tenacity's attempt number in
\* dev of a call whose latest fetch did not come to the count check
NoDev == -1

\* the running get_data call; calls counts the get_data calls of the wrapper,
\* fetches the executions of the body (each fetches the page once), devs
\* those that ended on the count check;
\* exhausted says that the latest fetch raised for want of a proxy; dev is
\* abs(page_count - expected_total_count) of the latest fetch of the call
NoPage ==
  [pc |-> "off", page |-> 0, count_ |-> 0, retry_count |-> 0, empty_retries |-> 0,
   tn_attempt |-> 0, fetches |-> 0, devs |-> 0, empties |-> 0, exhausted |-> FALSE,
   dev |-> NoDev, calls |-> 0, is_last_page |-> FALSE, ret |-> NoneResult]

\* stop_after_attempt(5)
TenacityStopsAtOnce(attempt) == attempt >= 1

TenacityStops(attempt) == attempt >= TenacityAttempts

PageReturn(w, r) == [w EXCEPT !.pc = "done", !.ret = r]

\* a new call of get_data
PageCallAgain(w) == [w EXCEPT !.tn_attempt = 1, !.dev = NoDev, !.calls = w.calls + 1]

\* the loop state at the first get_data call for page with total_count
\* count_; is_last_page is computed once, before the loop
PageCalled(page, count_) ==
  [NoPage EXCEPT !.pc = "run", !.page = page, !.count_ = count_, !.tn_attempt = 1,
                 !.calls = 1, !.is_last_page = is_last_page(page, count_)]

\* a wrapper that gives up only when retry_count has passed max_retries
PageOnExceptionLate(w) ==
  IF w.retry_count + 1 > max_retries
  THEN PageReturn([w EXCEPT !.retry_count = w.retry_count + 1], NoneResult)
  ELSE PageCallAgain([w EXCEPT !.retry_count = w.retry_count + 1])

\* except Exception: retry_count += 1, give up at max_retries
PageOnException(w) ==
  IF w.retry_count + 1 >= max_retries
  THEN PageReturn([w EXCEPT !.retry_count = w.retry_count + 1], NoneResult)
  ELSE PageCallAgain([w EXCEPT !.retry_count = w.retry_count + 1])

\* a wrapper that returns whatever get_data returned
PageOnDataAsIs(w, r) == PageReturn(w, r)

\* get_data returned data_list
PageOnData(w, r) ==
  IF Falsy(r) /\ w.is_last_page
  THEN IF w.empty_retries < EmptyRetries
       THEN PageCallAgain([w EXCEPT !.empty_retries = w.empty_retries + 1])
       ELSE PageReturn(w, ListResult({}, FALSE))
  ELSE PageReturn(w, r)

PageStart ==
  /\ pw.pc = "off"
  /\ \E pages \in 1..MaxPages :
       \E page \in 1..pages, count_ \in ProbeCounts(pages) :
         pw' = PageCalled(page, count_)
  /\ UNCHANGED <<pvars, cvars, probe, col, wr>>

PageBody ==
  /\ pw.pc = "run"
  /\ \E f \in FetchOutcomes, pl \in Payloads(pw.count_) :
       LET r == get_data_body(f, pl, pw.count_)
           dev == f = "soup" /\ pl.has_list /\ pl.has_re /\ CountMismatch(pl, pw.count_)
           w == [pw EXCEPT !.fetches = pw.fetches + 1,
                           !.devs = IF dev THEN pw.devs + 1 ELSE pw.devs,
                           !.empties = IF Falsy(r) THEN pw.empties + 1 ELSE pw.empties,
                           !.dev = IF f = "soup" /\ pl.has_list /\ pl.has_re
                                   THEN Deviation(pl, pw.count_) ELSE NoDev,
                           !.exhausted = (f = "raise")]
       IN pw' = IF r.kind = "raise_cc"
                THEN IF TenacityStops(w.tn_attempt)
                     THEN PageOnException(w)
                     ELSE [w EXCEPT !.tn_attempt = w.tn_attempt + 1]
                ELSE PageOnData(w, r)
  /\ UNCHANGED <<pvars, cvars, probe, col, wr>>

PageReturned ==
  /\ pw.pc = "done"
  /\ pw' = NoPage
  /\ UNCHANGED <<pvars, cvars, probe, col, wr>>

\* ------------------------------------------------- the records collection
\* self.col under the unique index on (stock_code, content_type, url_id):
\* for each key the number of stored documents
MaxDocs == 3

EmptyCol == [id \in RecordIds |-> 0]

Stored(c) == {id \in RecordIds : c[id] > 0}

Batches == UNION {[1..n -> RecordIds] : n \in 1..MaxDocs}

\* the index refuses a document whose key is stored
DuplicateNever(c, id) == FALSE

DuplicateKey(c, id) == c[id] > 0

\* insert_many(docs, ordered=False): every document is tried; n counts the
\* inserted ones (len(inserted_ids), or nInserted of the BulkWriteError)
RECURSIVE insert_many(_, _)
insert_many(c, docs) ==
  IF docs = <<>> THEN [col |-> c, n |-> 0]
  ELSE LET id == Head(docs)
           rest == IF DuplicateKey(c, id)
                   THEN insert_many(c, Tail(docs))
                   ELSE insert_many([c EXCEPT ![id] = c[id] + 1], Tail(docs))
       IN [col |-> rest.col,
           n |-> IF DuplicateKey(c, id) THEN rest.n ELSE rest.n + 1]

\* the latest write: the batch, the collection before it, how the call ended
\* and main's new_count
NoWrite == [kind |-> "none", docs |-> <<>>, before |-> EmptyCol, new_count |-> 0]

\* insert_many returns, or raises BulkWriteError for the refused documents
InsertBatch ==
  /\ \E docs \in Batches :
       LET r == insert_many(col, docs)
       IN /\ col' = r.col
          /\ wr' = [kind |-> "written", docs |-> docs, before |-> col, new_count |-> r.n]
  /\ UNCHANGED <<pvars, cvars, probe, pw>>

\* insert_many raises another exception after having written the first k
\* documents: new_count stays 0
InsertFails ==
  /\ \E docs \in Batches, k \in 0..MaxDocs :
       /\ k <= Len(docs)
       /\ col' = insert_many(col, SubSeq(docs, 1, k)).col
       /\ wr' = [kind |-> "failed", docs |-> docs, before |-> col, new_count |-> 0]
  /\ UNCHANGED <<pvars, cvars, probe, pw>>

\* ------------------------------------------------------ guba_comments.main
Pending == [kind |-> "pending", ids |-> {}, vetted |-> FALSE]

Running == {p \in DOMAIN fut : fut[p] = "running"}

Consumed == {consumeLog[i].page : i \in DOMAIN consumeLog}

\* the executor takes the submitted tasks in submission order, at most
\* max_workers at a time
WorkerStart(p) ==
  /\ fut[p] = "queued"
  /\ \A q \in DOMAIN fut : q < p => fut[q] # "queued"
  /\ Cardinality(Running) < max_workers
  /\ fut' = [fut EXCEPT ![p] = "running"]
  /\ UNCHANGED <<pvars, probe, pw, col, wr, total_pages, total_count, res, cur, main_pc,
                 consecutive_duplicate_pages, should_stop, store, consumeLog, finishLog, typeLog>>

\* _crawl_single_page(page, content_type, total_count) returns
WorkerFinish(p) ==
  /\ fut[p] = "running"
  /\ \E r \in CrawlOutcomes[p, total_count] : res' = [res EXCEPT ![p] = r]
  /\ fut' = [fut EXCEPT ![p] = "done"]
  /\ finishLog' = Append(finishLog, p)
  /\ UNCHANGED <<pvars, probe, pw, col, wr, total_pages, total_count, cur, main_pc,
                 consecutive_duplicate_pages, should_stop, store, consumeLog, typeLog>>

\* the task ends with an exception: future.result() will raise it
RaisedResult == [kind |-> "raise", ids |-> {}, vetted |-> FALSE]

WorkerRaises(p) ==
  /\ fut[p] = "running"
  /\ res' = [res EXCEPT ![p] = RaisedResult]
  /\ fut' = [fut EXCEPT ![p] = "done"]
  /\ finishLog' = Append(finishLog, p)
  /\ UNCHANGED <<pvars, probe, pw, col, wr, total_pages, total_count, cur, main_pc,
                 consecutive_duplicate_pages, should_stop, store, consumeLog, typeLog>>

\* the future whose result() the loop takes next: future_map[page]
AnyUnconsumed(page) == DOMAIN fut \ Consumed

AwaitedPage(page) == {page}

\* where the for loop goes after a page that gave no batch
AbortAfterFailure(page) == total_pages + 1

AfterFailure(page) == page + 1

\* a loop that resets the duplicate counter when it skips a page
DupResetOnFailure(c) == 0

\* `continue` on batch_data is None: the duplicate counter is not touched
DupAfterFailure(c) == c

\* batch_data is None: skipped, the duplicate counter is left alone
ConsumeFailed ==
  /\ main_pc = "consume"
  /\ cur <= total_pages
  /\ \E p \in AwaitedPage(cur) :
       /\ fut[p] = "done"
       /\ res[p].kind = "none"
       /\ consumeLog' = Append(consumeLog,
            [page |-> p, kind |-> "skip", new_count |-> 0, inserted |-> {}, vetted |-> FALSE])
  /\ cur' = AfterFailure(cur)
  /\ consecutive_duplicate_pages' = DupAfterFailure(consecutive_duplicate_pages)
  /\ UNCHANGED <<pvars, probe, pw, col, wr, total_pages, total_count, fut, res, main_pc,
                 should_stop, store, finishLog, typeLog>>

\* future.result() raises: except Exception logs it and the loop goes on
ConsumeRaised ==
  /\ main_pc = "consume"
  /\ cur <= total_pages
  /\ \E p \in AwaitedPage(cur) :
       /\ fut[p] = "done"
       /\ res[p].kind = "raise"
       /\ consumeLog' = Append(consumeLog,
            [page |-> p, kind |-> "error", new_count |-> 0, inserted |-> {}, vetted |-> FALSE])
  /\ cur' = AfterFailure(cur)
  /\ UNCHANGED <<pvars, probe, pw, col, wr, total_pages, total_count, fut, res, main_pc,
                 consecutive_duplicate_pages, should_stop, store, finishLog, typeLog>>

\* the page-level duplicate counter after a batch of new_count new records
NextDupNoReset(c, new_count) == IF new_count = 0 THEN c + 1 ELSE c

NextDup(c, new_count) == IF new_count = 0 THEN c + 1 ELSE 0

GuardTripsAbove(c) == c > duplicate_page_threshold

GuardTrips(c) == c >= duplicate_page_threshold

CancelNothing(f, page) == f

\* future.cancel() on the pages after page: only a task not yet started is
\* cancelled
Cancel(f, page) ==
  [p \in DOMAIN f |-> IF p > page /\ f[p] = "queued" THEN "cancelled" ELSE f[p]]

\* a list: insert_many under the unique index, count the new records, run
\* the duplicate-page guard
ConsumeBatch ==
  /\ main_pc = "consume"
  /\ cur <= total_pages
  /\ \E p \in AwaitedPage(cur) :
       /\ fut[p] = "done"
       /\ res[p].kind = "list"
       /\ LET inserted == res[p].ids \ store
               new_count == Cardinality(inserted)
               dup == NextDup(consecutive_duplicate_pages, new_count)
           IN /\ store' = store \cup inserted
              /\ consecutive_duplicate_pages' = dup
              /\ should_stop' = GuardTrips(dup)
              /\ consumeLog' = Append(consumeLog,
                   [page |-> p, kind |-> "batch", new_count |-> new_count,
                    inserted |-> inserted, vetted |-> res[p].vetted])
              /\ IF GuardTrips(dup)
                 THEN /\ fut' = Cancel(fut, p)
                      /\ main_pc' = "finished"
                      /\ cur' = cur
                 ELSE /\ fut' = fut
                      /\ main_pc' = main_pc
                      /\ cur' = cur + 1
  /\ UNCHANGED <<pvars, probe, pw, col, wr, total_pages, total_count, res, finishLog, typeLog>>

\* range(1, total_pages + 1) is through
PassEnd ==
  /\ main_pc = "consume"
  /\ cur > total_pages
  /\ main_pc' = "finished"
  /\ UNCHANGED <<pvars, probe, pw, col, wr, total_pages, total_count, fut, res, cur,
                 consecutive_duplicate_pages, should_stop, store, consumeLog, finishLog, typeLog>>

\* ---------------------------------------------- guba_comments.get_total_pages
\* the page-1 payloads the probe can meet: has_list says that a script holds
\* "var article_list" with a JSON object that parses (and whose count, when
\* present, converts with int()); has_items that "re" is not empty; nick_ok
\* that every item's user_nickname ends with the suffix
MaxProbeCount == MaxPages * PageSize + 1

NoPayload ==
  [has_list |-> FALSE, has_items |-> FALSE, nick_ok |-> TRUE, has_count |-> FALSE,
   count |-> 0]

ProbePayloads ==
  {NoPayload}
    \cup {[has_list |-> TRUE, has_items |-> hi, nick_ok |-> nk, has_count |-> TRUE,
           count |-> c] :
            hi \in BOOLEAN, nk \in BOOLEAN, c \in 0..MaxProbeCount}
    \cup {[has_list |-> TRUE, has_items |-> hi, nick_ok |-> nk, has_count |-> FALSE,
           count |-> 0] : hi \in BOOLEAN, nk \in BOOLEAN}

\* a payload without items has no nickname that could fail
ItemPayloads == {pl \in ProbePayloads : pl.has_items \/ pl.nick_ok}

\* the inline check of get_total_pages on one payload
ProbeClassifyNoNickname(pl) ==
  IF ~pl.has_list THEN "missing" ELSE "valid"

ProbeClassify(pl) ==
  IF ~pl.has_list THEN "missing"
  ELSE IF pl.has_items /\ ~pl.nick_ok THEN "antibot"
  ELSE "valid"

\* the content check of verify_proxy on the body of a 200 response
VerifyContent(pl) ==
  /\ pl.has_list
  /\ pl.has_items => pl.nick_ok
  /\ pl.has_count

\* the running call: the attempt number of range(5), how the latest attempt
\* ended, the number of attempts in a row up to the latest in which the fetch
\* gave no page, the payload that was accepted, the returned pair; penalties
\* counts the update_score calls made so far
NoProbe ==
  [pc |-> "off", attempt |-> 0, last |-> "", fails |-> 0, pl |-> NoPayload,
   pages |-> 0, count_ |-> 0, penalties |-> 0]

\* return total_pages, total_count
ProbeReturn(pr, pages, count_) ==
  [pr EXCEPT !.pc = "done", !.attempt = 0, !.pages = pages, !.count_ = count_]

\* total_pages of the two returns without a payload: 0 says "skip this
\* content type", 1 is the default of one page
SkipPages == 0
FallbackPages == 1

ProbeRetryFallback(pr, pages_at_end) ==
  IF pr.attempt < ProbeRetries - 1
  THEN [pr EXCEPT !.attempt = pr.attempt + 1]
  ELSE ProbeReturn(pr, FallbackPages, 0)

\* the end of an attempt that did not return: continue, or the value that the
\* last attempt returns
ProbeRetry(pr, pages_at_end) ==
  IF pr.attempt < ProbeRetries - 1
  THEN [pr EXCEPT !.attempt = pr.attempt + 1]
  ELSE ProbeReturn(pr, pages_at_end, 0)

\* get_total_pages(content_type) is called; an unknown content_type
\* returns (0, 0) at once
ProbeStart ==
  /\ probe.pc = "off"
  /\ \E type_ok \in BOOLEAN :
       probe' = IF type_ok THEN [probe EXCEPT !.pc = "run"]
                ELSE ProbeReturn([probe EXCEPT !.last = "bad_type"], SkipPages, 0)
  /\ UNCHANGED <<pvars, cvars, pw, col, wr>>

\* not soup (the fetch returned (None, None)), or get_soup_form_url raised
ProbeFetchFailed ==
  /\ probe.pc = "run"
  /\ \E f \in FetchOutcomes \ {"soup"} :
       probe' = ProbeRetry([probe EXCEPT !.last = f, !.fails = probe.fails + 1,
                                         !.pl = NoPayload], SkipPages)
  /\ UNCHANGED <<pvars, cvars, pw, col, wr>>

\* a payload that passes: total_pages = ceil(total_count / 80)
ProbeValid ==
  /\ probe.pc = "run"
  /\ \E pl \in ItemPayloads :
       /\ ProbeClassify(pl) = "valid"
       /\ probe' = ProbeReturn([probe EXCEPT !.last = "valid", !.fails = 0, !.pl = pl],
                                CeilDiv(pl.count, PageSize), pl.count)
  /\ UNCHANGED <<pvars, cvars, pw, col, wr>>

\* no article_list that parses: retry, (1, 0) after the last attempt
ProbeMissing ==
  /\ probe.pc = "run"
  /\ \E pl \in ItemPayloads :
       /\ ProbeClassify(pl) = "missing"
       /\ probe' = ProbeRetry([probe EXCEPT !.last = "missing", !.fails = 0, !.pl = NoPayload],
                               FallbackPages)
  /\ UNCHANGED <<pvars, cvars, pw, col, wr>>

\* a nickname without the suffix: update_score(proxy_used, success=False),
\* force_retry, (1, 0) after the last attempt
ProbeAntiBot ==
  /\ probe.pc = "run"
  /\ probe.penalties < MaxPenalties
  /\ \E pl \in ItemPayloads, proxy_used \in catalog :
       /\ ProbeClassify(pl) = "antibot"
       /\ probe' = ProbeRetry([probe EXCEPT !.last = "antibot", !.fails = 0, !.pl = NoPayload,
                                            !.penalties = probe.penalties + 1],
                               FallbackPages)
       /\ pool' = update_score(pool, proxy_used, FALSE)
  /\ UNCHANGED <<refill_lock, pc, loc, catalog, score0, fcall, cvars, pw, col, wr>>

\* the caller has the result
ProbeReturned ==
  /\ probe.pc = "done"
  /\ probe' = [NoProbe EXCEPT !.penalties = probe.penalties]
  /\ UNCHANGED <<pvars, cvars, pw, col, wr>>

\* no pass of main is running
NoCrawl ==
  /\ probe = NoProbe
  /\ pw = NoPage
  /\ col = EmptyCol
  /\ wr = NoWrite
  /\ total_pages = 0
  /\ total_count = 0
  /\ fut = <<>>
  /\ res = <<>>
  /\ cur = 0
  /\ main_pc = "off"
  /\ consecutive_duplicate_pages = 0
  /\ should_stop = FALSE
  /\ store = {}
  /\ consumeLog = <<>>
  /\ finishLog = <<>>
  /\ typeLog = <<>>

\* ------------------------------------------------------------ SpecPool
\* one crawl worker and the maintenance thread on the same pool
InitPool ==
  /\ NoCrawl
  /\ fcall = NoCall
  /\ pool = EmptyHash
  /\ refill_lock = Free
  /\ pc = [t \in Threads |-> "idle"]
  /\ loc = [t \in Threads |-> LocInit]
  /\ score0 = 0
  /\ catalog = PoolCatalog

GetRandomProxyStep(t) ==
  \/ GrpCheck(t)
  \/ GrpLock(t)
  \/ GrpRecheck(t)
  \/ GrpUnlock(t)
  \/ GrpPick(t)
  \/ GrpReturned(t)

RefillPoolStep(t) ==
  \/ RfStart(t)
  \/ RfFetch(t)
  \/ RfVerifyFail(t)
  \/ RfVerifyAdd(t)
  \/ RfCount(t)
  \/ RfDone(t)

UpdateScoreStep(t) ==
  \/ UsRead(t)
  \/ UsAbsent(t)
  \/ UsWrite(t)

MaintenanceStep(t) ==
  \/ MaintCheck(t)
  \/ RvVerifyFail(t)
  \/ RvVerifyAdd(t)
  \/ MaintRecheck(t)

WorkerStep(t) ==
  \/ GetRandomProxyStep(t)
  \/ RefillPoolStep(t)
  \/ UpdateScoreStep(t)
  \/ CallRemoveProxy(t)

NextPool ==
  \/ WorkerStep("w1")
  \/ MaintenanceStep(Maintainer)
  \/ RefillPoolStep(Maintainer)

SpecPool == InitPool /\ [][NextPool]_vars

\* ---------------------------------------------------------- SpecWorkers
\* two crawl workers on the same pool
NextWorkers == \E t \in Workers : WorkerStep(t)

SpecWorkers == InitPool /\ [][NextWorkers]_vars

\* ------------------------------------------------------------ SpecScore
\* two threads each call update_score(TestProxy, success=False) once on a
\* record that starts with score0
TestProxy == CHOOSE e \in PoolCatalog : TRUE

InitScore ==
  /\ NoCrawl
  /\ fcall = NoCall
  /\ score0 \in ScoreFloor..ScoreMax
  /\ catalog = PoolCatalog
  /\ pool = hset(EmptyHash, TestProxy, score0)
  /\ refill_lock = Free
  /\ pc = [t \in Threads |-> IF t \in Workers THEN "call" ELSE "idle"]
  /\ loc = [t \in Threads |-> LocInit]

ScoreRead(t) == pc[t] = "call" /\ UsReadOp(t, TestProxy, FALSE, "done")

ScoreAbsent(t) == pc[t] = "call" /\ UsAbsentOp(t, TestProxy, "done")

NextScore ==
  \E t \in Workers :
    \/ ScoreRead(t)
    \/ ScoreAbsent(t)
    \/ UsWrite(t)

SpecScore == InitScore /\ [][NextScore]_vars

\* ------------------------------------------------------------ SpecFetch
\* one thread calls get_data again and again on a pool that was persisted
\* by earlier runs; no other thread touches the pool
InitFetch ==
  /\ NoCrawl
  /\ fcall = NoCall
  /\ \E S \in SUBSET Endpoints :
       /\ Cardinality(S) <= max_count
       /\ pool \in [S -> InitScores]
  /\ refill_lock = Free
  /\ pc = [t \in Threads |-> "idle"]
  /\ loc = [t \in Threads |-> LocInit]
  /\ catalog = PoolCatalog
  /\ score0 = 0

NextFetch ==
  \/ FetchStart(Fetcher)
  \/ GetSoupStep(Fetcher)
  \/ GrpLock(Fetcher)
  \/ GrpRecheck(Fetcher)
  \/ GrpUnlock(Fetcher)
  \/ GrpPick(Fetcher)
  \/ RefillPoolStep(Fetcher)
  \/ GetDataBody(Fetcher)
  \/ GetDataReturned(Fetcher)

SpecFetch == InitFetch /\ [][NextFetch]_vars

\* ------------------------------------------------------------ SpecCrawl
\* one content-type pass: the pages are submitted, the workers run, the main
\* thread consumes
PoolIdle ==
  /\ pool = EmptyHash
  /\ refill_lock = Free
  /\ pc = [t \in Threads |-> "idle"]
  /\ loc = [t \in Threads |-> LocInit]
  /\ catalog = PoolCatalog
  /\ score0 = 0
  /\ fcall = NoCall

InitCrawl ==
  /\ PoolIdle
  /\ probe = NoProbe
  /\ pw = NoPage
  /\ col = EmptyCol
  /\ wr = NoWrite
  /\ total_pages \in 1..MaxPages
  /\ total_count \in ProbeCounts(total_pages)
  /\ fut = [p \in 1..total_pages |-> "queued"]
  /\ res = [p \in 1..total_pages |-> Pending]
  /\ cur = 1
  /\ main_pc = "consume"
  /\ consecutive_duplicate_pages = 0
  /\ should_stop = FALSE
  /\ store \in SUBSET RecordIds
  /\ consumeLog = <<>>
  /\ finishLog = <<>>
  /\ typeLog = <<>>

NextCrawl ==
  \/ \E p \in DOMAIN fut : WorkerStart(p)
  \/ \E p \in DOMAIN fut : WorkerFinish(p)
  \/ \E p \in DOMAIN fut : WorkerRaises(p)
  \/ ConsumeFailed
  \/ ConsumeRaised
  \/ ConsumeBatch
  \/ PassEnd

SpecCrawl == InitCrawl /\ [][NextCrawl]_vars

\* ------------------------------------------------------------ SpecGuard
\* the consuming loop of a pass whose workers have all returned, over an
\* empty store; the pages carry the batches of GuardProfile, in any order
GuardProfile == <<5, 0, 0, 3, 0, 0>>

RECURSIVE SumTo(_, _)
SumTo(seq, n) == IF n = 0 THEN 0 ELSE seq[n] + SumTo(seq, n - 1)

GuardBatch(i) == (SumTo(GuardProfile, i - 1) + 1)..SumTo(GuardProfile, i)

GuardResults ==
  {ListResult(GuardBatch(i), TRUE) : i \in DOMAIN GuardProfile} \cup {NoneResult}

InitGuard ==
  /\ PoolIdle
  /\ probe = NoProbe
  /\ pw = NoPage
  /\ col = EmptyCol
  /\ wr = NoWrite
  /\ total_pages \in 1..Len(GuardProfile)
  /\ total_count = PageSize * total_pages
  /\ fut = [p \in 1..total_pages |-> "done"]
  /\ res \in [1..total_pages -> GuardResults]
  /\ cur = 1
  /\ main_pc = "consume"
  /\ consecutive_duplicate_pages = 0
  /\ should_stop = FALSE
  /\ store = {}
  /\ consumeLog = <<>>
  /\ finishLog = [p \in 1..total_pages |-> p]
  /\ typeLog = <<>>

NextGuard ==
  \/ ConsumeFailed
  \/ ConsumeBatch
  \/ PassEnd

SpecGuard == InitGuard /\ [][NextGuard]_vars

\* ------------------------------------------------------------ SpecProbe
\* main calls get_total_pages again and again on a pool of fresh endpoints
InitProbe ==
  /\ pool = [e \in PoolCatalog |-> ScoreMax]
  /\ refill_lock = Free
  /\ pc = [t \in Threads |-> "idle"]
  /\ loc = [t \in Threads |-> LocInit]
  /\ catalog = PoolCatalog
  /\ score0 = 0
  /\ fcall = NoCall
  /\ NoCrawl

NextProbe ==
  \/ ProbeStart
  \/ ProbeFetchFailed
  \/ ProbeValid
  \/ ProbeMissing
  \/ ProbeAntiBot
  \/ ProbeReturned

SpecProbe == InitProbe /\ [][NextProbe]_vars

\* ------------------------------------------------------------- SpecPage
\* one worker runs _crawl_single_page for a page of a probed feed
InitPage ==
  /\ PoolIdle
  /\ NoCrawl

NextPage ==
  \/ PageStart
  \/ PageBody
  \/ PageReturned

SpecPage == InitPage /\ [][NextPage]_vars

\* ------------------------------------------------------------ SpecStore
\* page batches written one after another to the collection, over passes
InitStore ==
  /\ PoolIdle
  /\ NoCrawl

NextStore ==
  \/ InsertBatch
  \/ InsertFails

SpecStore == InitStore /\ [][NextStore]_vars

\* ---------------------------------------------------------- SpecExhaust
\* the fetches of main, one call after the other: the probe of a content
\* type, or the worker of one of its pages
InitExhaust == InitProbe

NextExhaust ==
  \/ pw = NoPage /\ NextProbe
  \/ probe = NoProbe /\ NextPage

SpecExhaust == InitExhaust /\ [][NextExhaust]_vars

\* ----------------------------------------------------------- SpecPasses
\* the content-type passes of main one after another on one store; in each
\* the workers have all returned when the consuming loop starts
PassResults ==
  {ListResult(ids, TRUE) : ids \in SUBSET RecordIds} \cup {NoneResult, RaisedResult}

\* the next content type: the counter is reset, the pages are submitted
PassStart ==
  /\ main_pc = "finished"
  /\ \E pages \in 1..MaxPages :
       /\ total_pages' = pages
       /\ total_count' = PageSize * pages
       /\ fut' = [p \in 1..pages |-> "done"]
       /\ res' \in [1..pages -> PassResults]
       /\ finishLog' = [p \in 1..pages |-> p]
  /\ consecutive_duplicate_pages' = 0
  /\ should_stop' = FALSE
  /\ cur' = 1
  /\ main_pc' = "consume"
  /\ consumeLog' = <<>>
  /\ UNCHANGED <<pvars, probe, pw, col, wr, store, typeLog>>

InitPasses ==
  /\ PoolIdle
  /\ probe = NoProbe
  /\ pw = NoPage
  /\ col = EmptyCol
  /\ wr = NoWrite
  /\ total_pages = 0
  /\ total_count = 0
  /\ fut = <<>>
  /\ res = <<>>
  /\ cur = 1
  /\ main_pc = "finished"
  /\ consecutive_duplicate_pages = 0
  /\ should_stop = FALSE
  /\ store = {}
  /\ consumeLog = <<>>
  /\ finishLog = <<>>
  /\ typeLog = <<>>

NextPasses ==
  \/ PassStart
  \/ ConsumeFailed
  \/ ConsumeRaised
  \/ ConsumeBatch
  \/ PassEnd

SpecPasses == InitPasses /\ [][NextPasses]_vars

\* -------------------------------------------------------------- SpecDcl
\* the workers call get_random_proxy once each, at the same time, on a pool
\* below min_threshold that nothing else writes to
InitDcl ==
  /\ NoCrawl
  /\ fcall = NoCall
  /\ score0 = 0
  /\ catalog = PoolCatalog
  /\ pool \in {EmptyHash} \cup {hset(EmptyHash, e, ScoreMax) : e \in PoolCatalog}
  /\ count(pool) < min_threshold
  /\ refill_lock = Free
  /\ pc = [t \in Threads |-> IF t \in Workers THEN "call" ELSE "idle"]
  /\ loc = [t \in Threads |-> LocInit]

DclCall(t) == pc[t] = "call" /\ GrpCheckOp(t, "done")

NextDcl ==
  \E t \in Workers :
    \/ DclCall(t)
    \/ GrpLock(t)
    \/ GrpRecheck(t)
    \/ GrpUnlock(t)
    \/ GrpPick(t)
    \/ RefillPoolStep(t)

SpecDcl == InitDcl /\ [][NextDcl]_vars

\* ----------------------------------------------------------- SpecUpdate
\* one thread calls update_score again and again on verified endpoints
InitUpdate ==
  /\ NoCrawl
  /\ fcall = NoCall
  /\ score0 = 0
  /\ catalog = PoolCatalog
  /\ pool \in [PoolCatalog -> VerifyScores]
  /\ refill_lock = Free
  /\ pc = [t \in Threads |-> "idle"]
  /\ loc = [t \in Threads |-> LocInit]

NextUpdate ==
  \/ UsRead(Fetcher)
  \/ UsAbsent(Fetcher)
  \/ UsWrite(Fetcher)

SpecUpdate == InitUpdate /\ [][NextUpdate]_vars

\* get_soup_form_url on one thread while another thread calls remove_proxy:
\* the pool starts with endpoints at the floor and at the top score
EvictScores == {ScoreFloor, ScoreMax}

InitEvict ==
  /\ NoCrawl
  /\ fcall = NoCall
  /\ \E S \in SUBSET Endpoints :
       /\ Cardinality(S) <= max_count
       /\ pool \in [S -> EvictScores]
  /\ refill_lock = Free
  /\ pc = [t \in Threads |-> "idle"]
  /\ loc = [t \in Threads |-> LocInit]
  /\ catalog = PoolCatalog
  /\ score0 = 0

NextEvict ==
  \/ FetchStart(Fetcher)
  \/ GetSoupStep(Fetcher)
  \/ GrpLock(Fetcher)
  \/ GrpRecheck(Fetcher)
  \/ GrpUnlock(Fetcher)
  \/ GrpPick(Fetcher)
  \/ RefillPoolStep(Fetcher)
  \/ CallRemoveProxy("w2")

SpecEvict == InitEvict /\ [][NextEvict]_vars

\* refill_pool called by one thread, again and again, with any target up to
\* one above max_count, on pools of up to two endpoints more than max_count;
\* the providers return addresses out of RefillEndpoints
RefillEndpoints == 1..(max_count + 2)
RefillTargets == 1..(max_count + 1)

InitRefill ==
  /\ NoCrawl
  /\ fcall = NoCall
  /\ \E S \in SUBSET RefillEndpoints : pool = [e \in S |-> ScoreMax]
  /\ refill_lock = Free
  /\ pc = [t \in Threads |-> "idle"]
  /\ loc = [t \in Threads |-> LocInit]
  /\ catalog = RefillEndpoints
  /\ score0 = 0

\* refill_pool(target_count = target)
RefillCall(t) ==
  /\ pc[t] = "idle"
  /\ \E target \in RefillTargets :
       loc' = [loc EXCEPT ![t].rf_target = target, ![t].rf_ret = "idle"]
  /\ Goto(t, "rf_start")
  /\ UNCHANGED <<pool, refill_lock, aux>>

NextRefill ==
  \/ RefillCall(Fetcher)
  \/ RefillPoolStep(Fetcher)

SpecRefill == InitRefill /\ [][NextRefill]_vars

\* get_random_proxy called by one thread on pools of 1 to TopHalfMin + 2
\* endpoints, each at the floor or at the top score
AcquireSizes == 1..(TopHalfMin + 2)

InitAcquire ==
  /\ NoCrawl
  /\ fcall = NoCall
  /\ \E n \in AcquireSizes : pool \in [1..n -> EvictScores]
  /\ refill_lock = Free
  /\ pc = [t \in Threads |-> "idle"]
  /\ loc = [t \in Threads |-> LocInit]
  /\ catalog = PoolCatalog
  /\ score0 = 0

NextAcquire ==
  \/ GetRandomProxyStep(Fetcher)
  \/ RefillPoolStep(Fetcher)

SpecAcquire == InitAcquire /\ [][NextAcquire]_vars

\* ------------------------------------------------------------ SpecWrites
\* the passes of main with the write of every batch made by insert_many on
\* the collection
\* the documents main hands to insert_many for a page: its records, one of
\* them possibly twice
DocsOf(ids) == {docs \in Batches : {docs[i] : i \in DOMAIN docs} = ids}

\* steps 2 to 4 of the loop body for the awaited page: insert_many when the
\* batch is not empty (new_count is len(inserted_ids), nInserted of a
\* BulkWriteError, or 0 after any other exception, which may come after k
\* documents were written), then the duplicate-page guard
ConsumeWrite ==
  /\ main_pc = "consume"
  /\ cur <= total_pages
  /\ \E p \in AwaitedPage(cur) :
       /\ fut[p] = "done"
       /\ res[p].kind = "list"
       /\ \E w \in IF res[p].ids = {}
                   THEN {[kind |-> "none", docs |-> <<>>, before |-> col, new_count |-> 0,
                          after |-> col]}
                   ELSE {[kind |-> "written", docs |-> docs, before |-> col,
                          new_count |-> insert_many(col, docs).n,
                          after |-> insert_many(col, docs).col] : docs \in DocsOf(res[p].ids)}
                        \cup
                        {[kind |-> "failed", docs |-> docs, before |-> col, new_count |-> 0,
                          after |-> insert_many(col, SubSeq(docs, 1, k)).col] :
                            docs \in DocsOf(res[p].ids), k \in 0..1} :
            LET dup == NextDup(consecutive_duplicate_pages, w.new_count)
            IN /\ col' = w.after
               /\ wr' = [kind |-> w.kind, docs |-> w.docs, before |-> w.before,
                         new_count |-> w.new_count]
               /\ store' = Stored(w.after)
               /\ consecutive_duplicate_pages' = dup
               /\ should_stop' = GuardTrips(dup)
               /\ consumeLog' = Append(consumeLog,
                    [page |-> p, kind |-> "batch", new_count |-> w.new_count,
                     inserted |-> Stored(w.after) \ Stored(col), vetted |-> res[p].vetted])
               /\ IF GuardTrips(dup)
                  THEN /\ fut' = Cancel(fut, p)
                       /\ main_pc' = "finished"
                       /\ cur' = cur
                  ELSE /\ fut' = fut
                       /\ main_pc' = main_pc
                       /\ cur' = cur + 1
  /\ UNCHANGED <<pvars, probe, pw, total_pages, total_count, res, finishLog, typeLog>>

NextWrites ==
  \/ PassStart
  \/ ConsumeFailed
  \/ ConsumeRaised
  \/ ConsumeWrite
  \/ PassEnd

SpecWrites == InitPasses /\ [][NextWrites]_vars

\* -------------------------------------------------------------- SpecMain
\* guba_comments.main for one stock after another: the loop over the content
\* types, each with its probe and, unless it is skipped, its pass
content_types == <<"news", "report", "notice">>

\* what get_total_pages can return: (0, 0), the default (1, 0), or the count
\* of a valid payload with ceil(count / 80) pages
ProbeReturns ==
  {<<SkipPages, 0>>, <<FallbackPages, 0>>}
    \cup {<<CeilDiv(c, PageSize), c>> : c \in {0} \cup TotalCounts}

\* the results of the workers of a pass: an empty list, a list with a
\* record, None, an exception
MainResults ==
  {ListResult({}, TRUE), ListResult({1}, TRUE), NoneResult, RaisedResult}

\* a main that returns after a pass that was stopped early
AfterPassAbort(stop) == IF stop THEN "returned" ELSE "types"

\* after the with block of a pass: the message, sleep, and the next content
\* type
AfterPass(stop) == "types"

\* main() is called for a stock
MainCall ==
  /\ main_pc \in {"off", "returned"}
  /\ main_pc' = "types"
  /\ typeLog' = <<>>
  /\ UNCHANGED <<pvars, probe, pw, col, wr, total_pages, total_count, fut, res, cur,
                 consecutive_duplicate_pages, should_stop, store, consumeLog, finishLog>>

\* the head of the loop body: get_total_pages(content_type); total_pages == 0
\* is `continue`; otherwise the counter is reset and every page is submitted
TypeProbe ==
  /\ main_pc = "types"
  /\ Len(typeLog) < Len(content_types)
  /\ \E r \in ProbeReturns :
       LET entry == [type |-> content_types[Len(typeLog) + 1], pages |-> r[1],
                     dispatched |-> 0, stopped |-> FALSE, failed |-> FALSE]
       IN IF r[1] = 0
          THEN /\ typeLog' = Append(typeLog, entry)
               /\ UNCHANGED <<total_pages, total_count, fut, res, cur, main_pc,
                              consecutive_duplicate_pages, should_stop, consumeLog,
                              finishLog>>
          ELSE /\ total_pages' = r[1]
               /\ total_count' = r[2]
               /\ fut' = [p \in 1..r[1] |-> "done"]
               /\ res' \in [1..r[1] -> MainResults]
               /\ finishLog' = [p \in 1..r[1] |-> p]
               /\ typeLog' = Append(typeLog, [entry EXCEPT !.dispatched = Len(fut')])
               /\ consecutive_duplicate_pages' = 0
               /\ should_stop' = FALSE
               /\ cur' = 1
               /\ consumeLog' = <<>>
               /\ main_pc' = "consume"
  /\ UNCHANGED <<pvars, probe, pw, col, wr, store>>

\* the pass is over, by the end of the range or by the break
TypeDone ==
  /\ main_pc = "finished"
  /\ typeLog # <<>>
  /\ typeLog' = [typeLog EXCEPT ![Len(typeLog)] =
                   [@ EXCEPT !.stopped = should_stop,
                             !.failed = \E i \in DOMAIN consumeLog :
                                           consumeLog[i].kind \in {"skip", "error"}]]
  /\ main_pc' = AfterPass(should_stop)
  /\ UNCHANGED <<pvars, probe, pw, col, wr, total_pages, total_count, fut, res, cur,
                 consecutive_duplicate_pages, should_stop, store, consumeLog, finishLog>>

\* the for loop over content_types is through
MainReturn ==
  /\ main_pc = "types"
  /\ Len(typeLog) = Len(content_types)
  /\ main_pc' = "returned"
  /\ UNCHANGED <<pvars, probe, pw, col, wr, total_pages, total_count, fut, res, cur,
                 consecutive_duplicate_pages, should_stop, store, consumeLog, finishLog,
                 typeLog>>

InitMain ==
  /\ PoolIdle
  /\ NoCrawl

NextMain ==
  \/ MainCall
  \/ TypeProbe
  \/ ConsumeFailed
  \/ ConsumeRaised
  \/ ConsumeBatch
  \/ PassEnd
  \/ TypeDone
  \/ MainReturn

SpecMain == InitMain /\ [][NextMain]_vars

\* one thread in update_score while another calls remove_proxy; nobody
\* refills or verifies
NextRace ==
  \/ NextUpdate
  \/ CallRemoveProxy("w2")

SpecRace == InitUpdate /\ [][NextRace]_vars

\* ------------------------------------------------------------- SpecTerm
\* one content-type pass in which every worker runs _crawl_single_page one
\* get_data call at a time; pw holds one loop state per page. The executor
\* and the main thread keep running: every step that stays possible is
\* eventually taken
InitTerm ==
  /\ PoolIdle
  /\ probe = NoProbe
  /\ col = EmptyCol
  /\ wr = NoWrite
  /\ total_pages \in 1..MaxPages
  /\ total_count \in ProbeCounts(total_pages)
  /\ pw = [p \in 1..total_pages |-> NoPage]
  /\ fut = [p \in 1..total_pages |-> "queued"]
  /\ res = [p \in 1..total_pages |-> Pending]
  /\ cur = 1
  /\ main_pc = "consume"
  /\ consecutive_duplicate_pages = 0
  /\ should_stop = FALSE
  /\ store = {}
  /\ consumeLog = <<>>
  /\ finishLog = <<>>
  /\ typeLog = <<>>

\* what a get_data call can give: None, an exception, the empty list, or a
\* list with all the records of the feed
TermResults ==
  [count_ \in TotalCounts |->
     {r \in get_data(1, count_) : r.kind = "list" => r.ids \in {{}, RecordIds}}]

\* a worker thread takes the task of page p and makes its first get_data call
TermStart(p) ==
  /\ fut[p] = "queued"
  /\ \A q \in DOMAIN fut : q < p => fut[q] # "queued"
  /\ Cardinality(Running) < max_workers
  /\ fut' = [fut EXCEPT ![p] = "running"]
  /\ pw' = [pw EXCEPT ![p] = PageCalled(p, total_count)]
  /\ UNCHANGED <<pvars, probe, col, wr, total_pages, total_count, res, cur, main_pc,
                 consecutive_duplicate_pages, should_stop, store, consumeLog, finishLog, typeLog>>

\* the running get_data call of page p ends: with data_list, or with the
\* exception tenacity raises after its last attempt
TermGetData(p) ==
  /\ fut[p] = "running"
  /\ pw[p].pc = "run"
  /\ \E r \in TermResults[total_count] :
       pw' = [pw EXCEPT ![p] = IF r.kind = "retry_error"
                               THEN PageOnException(pw[p])
                               ELSE PageOnData(pw[p], r)]
  /\ UNCHANGED <<pvars, cvars, probe, col, wr>>

\* _crawl_single_page returns: the future of page p is done; of the loop
\* state only the number of get_data calls is kept
TermReturn(p) ==
  /\ fut[p] = "running"
  /\ pw[p].pc = "done"
  /\ res' = [res EXCEPT ![p] = pw[p].ret]
  /\ fut' = [fut EXCEPT ![p] = "done"]
  /\ pw' = [pw EXCEPT ![p] = [NoPage EXCEPT !.pc = "returned", !.calls = pw[p].calls]]
  /\ UNCHANGED <<pvars, probe, col, wr, total_pages, total_count, cur, main_pc,
                 consecutive_duplicate_pages, should_stop, store, consumeLog, finishLog,
                 typeLog>>

NextTerm ==
  \/ \E p \in DOMAIN fut : TermStart(p)
  \/ \E p \in DOMAIN fut : TermGetData(p)
  \/ \E p \in DOMAIN fut : TermReturn(p)
  \/ ConsumeFailed
  \/ ConsumeBatch
  \/ PassEnd

SpecTerm == InitTerm /\ [][NextTerm]_vars /\ WF_vars(NextTerm)

\* --------------------------------------------------------- SpecValidate
\* the body of one 200 response goes through both content checks: that of
\* verify_proxy, which decides whether the endpoint that served it enters the
\* pool, and that of get_total_pages
ValidateVerify ==
  /\ probe.pc = "off"
  /\ \E pl \in ItemPayloads, ticks \in LatencyTicks :
       /\ probe' = [NoProbe EXCEPT !.pc = "verified", !.pl = pl]
       /\ pool' = IF VerifyContent(pl)
                  THEN add_proxy(pool, TestProxy, VerifyScore(ticks))
                  ELSE pool
  /\ UNCHANGED <<refill_lock, pc, loc, catalog, score0, fcall, cvars, pw, col, wr>>

ValidateProbe ==
  /\ probe.pc = "verified"
  /\ probe' = [probe EXCEPT !.pc = "probed", !.last = ProbeClassify(probe.pl)]
  /\ UNCHANGED <<pvars, cvars, pw, col, wr>>

\* the next body is served by a fresh candidate
ValidateNext ==
  /\ probe.pc = "probed"
  /\ probe' = NoProbe
  /\ pool' = EmptyHash
  /\ UNCHANGED <<refill_lock, pc, loc, catalog, score0, fcall, cvars, pw, col, wr>>

InitValidate == PoolIdle /\ NoCrawl

NextValidate ==
  \/ ValidateVerify
  \/ ValidateProbe
  \/ ValidateNext

SpecValidate == InitValidate /\ [][NextValidate]_vars

\* ------------------------------------------------------------ SpecDrift
\* the scores during crawling: one thread fetches page 1 for the probe, over
\* a pool of fresh and of worn endpoints, and the probe checks the page
\* get_total_pages finds a nickname without the suffix in the page it got:
\* update_score(proxy_used, success=False), the one score report of the
\* crawler
ProbePenalizes(t) ==
  /\ pc[t] = "f_end"
  /\ fcall.out = "soup"
  /\ pool' = update_score(pool, fcall.proxy, FALSE)
  /\ Goto(t, "f_penalized")
  /\ UNCHANGED <<refill_lock, loc, aux>>

NextDrift ==
  \/ FetchStart(Fetcher)
  \/ GetSoupStep(Fetcher)
  \/ GrpLock(Fetcher)
  \/ GrpRecheck(Fetcher)
  \/ GrpUnlock(Fetcher)
  \/ GrpPick(Fetcher)
  \/ RefillPoolStep(Fetcher)
  \/ ProbePenalizes(Fetcher)

SpecDrift == InitEvict /\ [][NextDrift]_vars

\* ------------------------------------------------------------- SpecWear
\* an endpoint that verify_proxy inserted with score0 gets nothing but
\* update_score(success=False) calls, one after the other; probe.penalties
\* counts them. The calls keep coming
InitWear ==
  /\ NoCrawl
  /\ fcall = NoCall
  /\ score0 \in VerifyFloor..ScoreMax
  /\ catalog = PoolCatalog
  /\ pool = add_proxy(EmptyHash, TestProxy, score0)
  /\ refill_lock = Free
  /\ pc = [t \in Threads |-> "idle"]
  /\ loc = [t \in Threads |-> LocInit]

FailureUpdate ==
  /\ probe.penalties < MaxFailureCalls
  /\ pool' = update_score(pool, TestProxy, FALSE)
  /\ probe' = [probe EXCEPT !.penalties = probe.penalties + 1]
  /\ UNCHANGED <<refill_lock, pc, loc, catalog, score0, fcall, cvars, pw, col, wr>>

NextWear == FailureUpdate

SpecWear == InitWear /\ [][NextWear]_vars /\ WF_vars(FailureUpdate)

\* ------------------------------------------------------------- SpecLast
\* main dispatches the pages 1..total_pages of a pass whose probe returned
\* (ceil(count / 80), count) for a count above 0, or the fallback (1, 0); each
\* worker computes is_last_page
DispatchPairs ==
  {<<FallbackPages, 0>>} \cup {<<CeilDiv(c, PageSize), c>> : c \in 1..MaxProbeCount}

InitLast ==
  /\ PoolIdle
  /\ probe = NoProbe
  /\ pw = NoPage
  /\ col = EmptyCol
  /\ wr = NoWrite
  /\ \E pr \in DispatchPairs : total_pages = pr[1] /\ total_count = pr[2]
  /\ fut = [p \in 1..total_pages |-> "queued"]
  /\ res = [p \in 1..total_pages |-> Pending]
  /\ cur = 1
  /\ main_pc = "consume"
  /\ consecutive_duplicate_pages = 0
  /\ should_stop = FALSE
  /\ store = {}
  /\ consumeLog = <<>>
  /\ finishLog = <<>>
  /\ typeLog = <<>>

\* executor.submit(self._crawl_single_page, page, content_type, total_count):
\* the task of page p starts
LastStart(p) ==
  /\ fut[p] = "queued"
  /\ pw.pc = "off"
  /\ fut' = [fut EXCEPT ![p] = "running"]
  /\ pw' = PageCalled(p, total_count)
  /\ UNCHANGED <<pvars, probe, col, wr, total_pages, total_count, res, cur, main_pc,
                 consecutive_duplicate_pages, should_stop, store, consumeLog, finishLog, typeLog>>

\* the task ends
LastEnd(p) ==
  /\ fut[p] = "running"
  /\ pw.pc = "run"
  /\ pw.page = p
  /\ fut' = [fut EXCEPT ![p] = "done"]
  /\ pw' = NoPage
  /\ UNCHANGED <<pvars, probe, col, wr, total_pages, total_count, res, cur, main_pc,
                 consecutive_duplicate_pages, should_stop, store, consumeLog, finishLog, typeLog>>

NextLast ==
  \/ \E p \in DOMAIN fut : LastStart(p)
  \/ \E p \in DOMAIN fut : LastEnd(p)

SpecLast == InitLast /\ [][NextLast]_vars

Spec == SpecPool

\* ------------------------------------------------------------------ claims

\* C2: every record stored in the pool has a score in [30, 100] (so 0 <= score
\* <= 100, and a score below 30 is never stored), whatever sequence of
\* add_proxy, update_score, remove_proxy, refill_pool and revalidate_pool ran.
C2_ScoreRange == \A e \in DOMAIN pool : pool[e] \in ScoreFloor..ScoreMax

\* an endpoint has been brought down to exactly the floor by score updates
\* while the maintenance thread is at work
C2_Witness ==
  /\ \E e \in DOMAIN pool : pool[e] = ScoreFloor
  /\ pc[Maintainer] # "idle"

\* C3: the endpoint get_random_proxy returns is, in the snapshot the call
\* read, a record with score >= 30, under every interleaving with the other
\* worker's update_score and remove_proxy.
C3_AcquireAboveFloor ==
  [][\A t \in Threads :
       (pc[t] = "grp_pick" /\ pc'[t] # "grp_pick" /\ loc'[t].ret # NoProxy)
         => (loc'[t].ret \in DOMAIN pool /\ pool[loc'[t].ret] >= ScoreFloor)]_vars

\* a worker holds a returned endpoint that the other worker is about to evict
C3_Witness ==
  \E t \in Workers, u \in Workers :
    /\ pc[t] = "grp_done"
    /\ loc[t].ret # NoProxy
    /\ pc[u] = "us_write"
    /\ loc[u].us_proxy = loc[t].ret
    /\ loc[u].us_score < ScoreFloor

\* C6: at most one thread executes refill_pool at any time.
C6_RefillMutex == Cardinality({t \in Threads : InRefill(t)}) <= 1

\* the pool after n sequential update_score(TestProxy, False) calls
RECURSIVE AfterFailures(_, _)
AfterFailures(h, n) ==
  IF n = 0 \/ TestProxy \notin DOMAIN h THEN h
  ELSE AfterFailures(StoreScore(h, TestProxy, NewScore(h[TestProxy], FALSE)), n - 1)

\* C7: when both threads have finished update_score(P, False), the pool holds
\* what two updates one after the other leave: no update is lost.
C7_NoLostUpdate ==
  (\A t \in Workers : pc[t] = "done")
    => pool = AfterFailures(hset(EmptyHash, TestProxy, score0), Cardinality(Workers))

\* ------------------------------------------------------------------ fetch
TransportFailures == [i \in 1..FetchAttempts |-> "exception"]

Exhausted == fcall.out = "none" /\ Len(fcall.kinds) = FetchAttempts

\* C8: within one call of get_soup_form_url the proxies of its attempts are
\* pairwise distinct: the number of different proxies used equals the number
\* of attempts that used one.
C8_DistinctProxies == Cardinality(fcall.used) = Len(fcall.kinds)

\* C9: a fetch whose 3 attempts are exhausted without a valid result fails
\* with an exception: get_soup_form_url raises, or get_data raises the
\* network error to its caller, rather than returning a value.
C9_ExhaustedRaises ==
  (pc[Fetcher] = "gd_done" /\ Exhausted)
    => (fcall.out = "raise" \/ fcall.gd_out = "raise_network")

\* C10 as stated: after a call whose 3 attempts each ended in a transport
\* failure the pool holds exactly 3 fewer endpoints than before the call,
\* each attempt having evicted a distinct endpoint.
C10_ThreeFewer ==
  (pc[Fetcher] = "f_end" /\ fcall.kinds = TransportFailures)
    => /\ count(pool) = fcall.before - FetchAttempts
       /\ Cardinality(fcall.used) = FetchAttempts

\* C10 amended: after such a call the pool holds 3 fewer endpoints than
\* before plus the endpoints inserted by the refills that the call's own
\* acquisitions triggered; it holds exactly 3 fewer, three distinct endpoints
\* evicted, when it held at least min_threshold + 2 endpoints before the call.
C10_ThreeFewerPlusRefilled ==
  (pc[Fetcher] = "f_end" /\ fcall.kinds = TransportFailures)
    => /\ count(pool) = fcall.before - FetchAttempts + fcall.added
       /\ fcall.before >= min_threshold + FetchAttempts - 1
            => /\ fcall.added = 0
               /\ Cardinality(fcall.used) = FetchAttempts

C10_Witness ==
  /\ pc[Fetcher] = "f_end"
  /\ fcall.kinds = TransportFailures
  /\ fcall.added > 0
  /\ count(pool) > fcall.before - FetchAttempts

\* ------------------------------------------------------------------- pass
\* C1: whatever order the workers finish in, the pages are consumed in page
\* order: the i-th page consumed (committed, skipped as failed or found
\* empty) is page i, so the committed pages are strictly ascending and page N
\* is never committed before every page M < N has been consumed.
C1_AscendingCommit ==
  \A i \in DOMAIN consumeLog : consumeLog[i].page = i

FinishPos(p) == CHOOSE i \in DOMAIN finishLog : finishLog[i] = p

C1_Witness ==
  \E i, j \in DOMAIN consumeLog :
    /\ i < j
    /\ consumeLog[i].inserted # {}
    /\ consumeLog[j].inserted # {}
    /\ FinishPos(consumeLog[j].page) < FinishPos(consumeLog[i].page)

\* the new_count every page of the pass yields when the pages are inserted
\* in page order into the store st
RECURSIVE Yields(_, _, _)
Yields(r, i, st) ==
  IF i > Len(r) THEN <<>>
  ELSE <<Cardinality(r[i].ids \ st)>> \o Yields(r, i + 1, st \cup r[i].ids)

\* the pass started on an empty store and its pages yield GuardProfile
Scenario ==
  /\ total_pages = Len(GuardProfile)
  /\ \A p \in DOMAIN res : res[p].kind = "list"
  /\ store = UNION {consumeLog[i].inserted : i \in DOMAIN consumeLog}
  /\ Yields(res, 1, {}) = GuardProfile

\* the first page that closes duplicate_page_threshold consecutive zeros
ZerosEndAt(n) ==
  /\ n >= duplicate_page_threshold
  /\ \A k \in (n - duplicate_page_threshold + 1)..n : GuardProfile[k] = 0

StopPage ==
  CHOOSE n \in DOMAIN GuardProfile :
    ZerosEndAt(n) /\ \A m \in 1..(n - 1) : ~ZerosEndAt(m)

\* C4 as stated: with new_count = [5,0,0,3,0,0] and threshold 2 the pass
\* stops after the second pair of consecutive zeros, that is after the last
\* page (index 5), never earlier.
C4_StopsAfterSecondPair ==
  (Scenario /\ main_pc = "finished")
    => (should_stop /\ Len(consumeLog) = Len(GuardProfile))

\* C4 amended: with pages that yield [5,0,0,3,0,0] and threshold 2 the pass
\* stops exactly after the first pair of consecutive zeros, the page of
\* index 2, never earlier; the pages of index 3 to 5 are never consumed.
C4_StopsAfterFirstPair ==
  Scenario =>
    /\ should_stop => Len(consumeLog) = StopPage
    /\ Len(consumeLog) <= StopPage
    /\ main_pc = "finished"
         => /\ should_stop
            /\ [i \in DOMAIN consumeLog |-> consumeLog[i].new_count]
                 = SubSeq(GuardProfile, 1, StopPage)

C4_Witness ==
  /\ Scenario
  /\ main_pc = "finished"
  /\ should_stop
  /\ Len(consumeLog) = StopPage
  /\ consumeLog[StopPage].page = StopPage

\* C5: no record of a spoofed payload is committed: every batch of which a
\* record was inserted into the store came from a payload that has a count
\* field and whose items all carry a conforming user_nickname.
C5_OnlyVettedCommitted ==
  \A i \in DOMAIN consumeLog :
    consumeLog[i].inserted # {} => consumeLog[i].vetted

\* ------------------------------------------------------------------ probe
ProbeDone == probe.pc = "done"

\* C11: a probe that returns from a payload that passed the check returns
\* that payload's count and total_pages = ceil(total_count / 80): the least
\* number of pages of 80 that hold total_count records, 0 for a count of 0.
C11_CeilPages ==
  (ProbeDone /\ probe.last = "valid")
    => /\ probe.count_ = probe.pl.count
       /\ probe.pages * PageSize >= probe.count_
       /\ (probe.pages - 1) * PageSize < probe.count_
       /\ probe.count_ = 0 => probe.pages = 0

C11_Witness ==
  /\ ProbeDone
  /\ probe.last = "valid"
  /\ probe.count_ = PageSize + 1
  /\ probe.pages = 2

\* C12 as stated: a probe whose 5 attempts all ended because the fetch gave
\* no page or raised returns the fallback (1, 0).
C12_FetchFailuresGiveFallback ==
  (ProbeDone /\ probe.fails = ProbeRetries)
    => (probe.pages = FallbackPages /\ probe.count_ = 0)

\* C12 amended: a probe whose 5 attempts all ended because the fetch gave no
\* page or raised returns (0, 0), as does every probe whose last attempt
\* ended so; the fallback (1, 0) is what a probe returns whose last attempt
\* got a page in which no payload passed the check.
C12_FetchFailuresGiveSkip ==
  /\ (ProbeDone /\ probe.fails = ProbeRetries)
       => (probe.pages = SkipPages /\ probe.count_ = 0)
  /\ (ProbeDone /\ probe.last \in FetchOutcomes \ {"soup"})
       => (probe.pages = SkipPages /\ probe.count_ = 0)
  /\ (ProbeDone /\ probe.last \in {"missing", "antibot"})
       => (probe.pages = FallbackPages /\ probe.count_ = 0)

C12_Witness == ProbeDone /\ probe.fails = ProbeRetries

\* C13 as stated: the probe returns 0 pages only for an invalid content_type
\* or when it fails to get a page at all.
C13_ZeroOnlyOnFailure ==
  (ProbeDone /\ probe.pages = 0)
    => probe.last \in {"bad_type"} \cup (FetchOutcomes \ {"soup"})

\* C13 amended: the probe returns 0 pages exactly when the content_type is
\* invalid, when its last attempt got no page from the fetch, or when the
\* payload that passed the check has the count 0 or no count field; in every
\* other case total_pages >= 1.
C13_ZeroPagesCases ==
  ProbeDone =>
    /\ probe.pages = 0
         <=> \/ probe.last = "bad_type"
             \/ probe.last \in FetchOutcomes \ {"soup"}
             \/ probe.last = "valid" /\ (~probe.pl.has_count \/ probe.pl.count = 0)
    /\ probe.pages >= 0

C13_Witness ==
  /\ ProbeDone
  /\ probe.last = "valid"
  /\ probe.pl.has_count
  /\ probe.pl.has_items
  /\ probe.pages = 0

\* C18: a payload with count 42 whose nicknames all end in the suffix passes
\* both checks and the probe returns (1, 42) from it; a payload with a
\* nickname that does not end in the suffix is anti-bot-suspected for the
\* probe, fails verify_proxy, and is never the payload a probe returns from.
ScenarioCount == 42

C18_ValidatorScenario ==
  /\ (ProbeDone /\ probe.last = "valid" /\ probe.pl.has_count
         /\ probe.pl.count = ScenarioCount)
       => (probe.count_ = ScenarioCount /\ probe.pages = 1)
  /\ (ProbeDone /\ probe.last = "valid") => (probe.pl.has_items => probe.pl.nick_ok)
  /\ \A pl \in ItemPayloads :
       /\ (pl.has_list /\ pl.has_count /\ pl.count = ScenarioCount /\ pl.nick_ok)
            => (ProbeClassify(pl) = "valid" /\ VerifyContent(pl))
       /\ (pl.has_list /\ pl.has_items /\ ~pl.nick_ok)
            => (ProbeClassify(pl) = "antibot" /\ ~VerifyContent(pl))

C18_Witness ==
  /\ ProbeDone
  /\ probe.last = "valid"
  /\ probe.pl.has_items
  /\ probe.pl.count = ScenarioCount
  /\ probe.pages = 1
  /\ probe.penalties > 0

\* ------------------------------------------------------------------- page
PageDone == pw.pc = "done"

\* every execution of the body so far ended on the count check
PersistentDeviation == pw.fetches > 0 /\ pw.devs = pw.fetches

\* the step model returns what crawl_single_page computes
PageAgreesWithOperator ==
  PageDone => pw.ret \in CrawlOutcomes[pw.page, pw.count_]

FailedAt(i) == consumeLog[i].kind \in {"skip", "error"}

PassFinished == main_pc = "finished"

StoppedAt == consumeLog[Len(consumeLog)].page

StoppedState ==
  should_stop
    => /\ PassFinished
       /\ Len(consumeLog) > 0
       /\ \A i \in DOMAIN consumeLog : consumeLog[i].page <= StoppedAt
       /\ \A p \in DOMAIN fut :
            p > StoppedAt => fut[p] \in {"cancelled", "running", "done"}

StoppedStep ==
  should_stop => should_stop' /\ store' = store /\ consumeLog' = consumeLog

\* C16: once the stop flag is set at page N the loop has ended, no page
\* after N has been or will be consumed and the store never changes again:
\* a task after N is cancelled if it had not started, and otherwise runs to
\* its end with its result left in the future.
C16_NothingAfterStop == []StoppedState /\ [][StoppedStep]_vars

\* the flag is set while the fetch of a later page is in flight
C16_Witness ==
  /\ should_stop
  /\ \E q \in DOMAIN fut : q > StoppedAt /\ fut[q] = "running"

\* ------------------------------------------------------------ idempotence
Keys(docs) == {docs[i] : i \in DOMAIN docs}

Steps(t) == pc'[t] # pc[t]

\* a refill whose providers returned nothing has no candidate to verify
DryRefillState ==
  \A t \in Workers : loc[t].rf_dry => pc[t] = "rf_verify" /\ loc[t].rf_new = {}

\* the steps of such a refill leave the pool alone, and the refill returns
DryRefillStep ==
  \A t \in Workers :
    /\ pc[t] \in {"rf_start", "rf_fetch"} /\ Steps(t) => pool' = pool
    /\ loc[t].rf_dry /\ Steps(t) => pool' = pool /\ pc'[t] = loc[t].rf_ret

\* get_random_proxy on an empty pool returns None
EmptyAcquireStep ==
  \A t \in Workers :
    pc[t] = "grp_pick" /\ Steps(t) /\ DOMAIN pool = {}
      => loc'[t].ret = NoProxy /\ pool' = pool

\* an empty pool gets its first endpoint from a refill that had a candidate
\* pass verification
RefilledStep ==
  DOMAIN pool = {} /\ DOMAIN pool' # {}
    => \E t \in Workers :
         pc[t] = "rf_verify" /\ pc'[t] = "rf_count" /\ ~loc[t].rf_dry

\* the part of C19 that is about the refill and the acquire themselves
DryRefillAndEmptyAcquire ==
  /\ []DryRefillState
  /\ [][DryRefillStep /\ EmptyAcquireStep]_vars

\* C19: a refill whose providers return no candidate changes nothing in the
\* pool and returns; get_random_proxy on an empty pool returns None, without
\* raising, and the pool stays empty, so that every later call returns None,
\* until a refill adds a verified candidate.
C19_DryRefillIsNoOp ==
  /\ []DryRefillState
  /\ [][DryRefillStep /\ EmptyAcquireStep /\ RefilledStep]_vars

\* -------------------------------------------------------- pool exhausted
\* the probe's last attempt ended on the NetworkException of an empty pool
ProbeExhausted == ProbeDone /\ probe.last = "raise"

\* the worker's last fetch ended on it
PageExhausted == PageDone /\ pw.exhausted

\* the probe fails for main: total_pages = 0, the content type is skipped
FailedProbe == probe.pages = SkipPages /\ probe.count_ = 0

RECURSIVE TrailingDuplicates(_)
TrailingDuplicates(n) ==
  IF n = 0 THEN 0
  ELSE IF consumeLog[n].kind # "batch" THEN TrailingDuplicates(n - 1)
  ELSE IF consumeLog[n].new_count = 0 THEN TrailingDuplicates(n - 1) + 1
  ELSE 0

\* C21: in every pass the duplicate counter starts at 0, goes up by 1 with
\* each batch of new_count = 0 and back to 0 with each batch of
\* new_count > 0; the stop flag is set exactly when the counter has reached
\* duplicate_page_threshold, which it never exceeds.
C21_DuplicateCounter ==
  /\ consecutive_duplicate_pages = TrailingDuplicates(Len(consumeLog))
  /\ should_stop <=> consecutive_duplicate_pages >= duplicate_page_threshold
  /\ consecutive_duplicate_pages <= duplicate_page_threshold
  /\ should_stop
       => /\ consumeLog[Len(consumeLog)].kind = "batch"
          /\ consumeLog[Len(consumeLog)].new_count = 0

\* a later pass in which the counter went up, back to 0 and up again
C21_Witness ==
  /\ Len(consumeLog) = 3
  /\ consumeLog[1].kind = "batch" /\ consumeLog[1].new_count = 0
  /\ consumeLog[2].kind = "batch" /\ consumeLog[2].new_count > 0
  /\ consumeLog[3].kind = "batch" /\ consumeLog[3].new_count = 0
  /\ store # consumeLog[2].inserted
  /\ consecutive_duplicate_pages = 1
  /\ ~should_stop

\* ------------------------------------------------- double-checked locking
\* the workers that have called refill_pool: rf_target holds the
\* target_count of a worker's call
Refilled == {t \in Workers : loc[t].rf_target # 0}

\* refill_pool runs under the lock, and starts on a pool below the threshold
RefillUnderLock ==
  \A t \in Workers :
    /\ InRefill(t) => refill_lock = t
    /\ pc[t] = "rf_start" => count(pool) < min_threshold

\* the worker that has the lock checks count() again: it refills when the
\* pool is still short, and goes on without a refill when it is not
RecheckStep ==
  \A t \in Workers :
    pc[t] = "grp_recheck" /\ pc'[t] # pc[t]
      => IF count(pool) >= min_threshold
         THEN pc'[t] = "grp_unlock" /\ loc'[t] = loc[t] /\ pool' = pool
         ELSE pc'[t] = "rf_start"

\* both calls have returned
AllReturned == \A t \in Workers : pc[t] = "done"

\* C22: of the workers that call get_random_proxy together on a pool below
\* min_threshold one refills, under the lock; a worker that waited for the
\* lock checks the count again and skips its refill when the pool has
\* reached min_threshold, so that a second refill_pool runs only after a
\* first that left the pool short.
C22_DoubleChecked ==
  /\ [](RefillUnderLock /\ (AllReturned => Refilled # {}))
  /\ [][RecheckStep]_vars

\* a worker waited for the lock during the other's refill and has skipped
\* its own
C22_Witness ==
  \E t, u \in Workers :
    /\ pc[t] = "grp_unlock" /\ loc[t].rf_target = 0
    /\ pc[u] = "done" /\ loc[u].rf_target # 0
    /\ count(pool) >= min_threshold

\* ----------------------------------------------------------- update_score
\* C23: update_score(p, success) on a present endpoint p of score s stores
\* min(100, s + 5) on success; on failure it computes max(0, s - 10) and
\* removes p when that is below 30, and stores it otherwise; the record of
\* every other endpoint stays as it is.
C23_UpdateScore ==
  [][\A t \in Workers :
       pc[t] = "us_write" /\ pc'[t] # pc[t]
         => LET p == loc[t].us_proxy
                s == pool[p]
                up == IF s + 5 > 100 THEN 100 ELSE s + 5
                down == IF s - 10 < 0 THEN 0 ELSE s - 10
            IN /\ loc[t].us_success => p \in DOMAIN pool' /\ pool'[p] = up
               /\ ~loc[t].us_success /\ down < 30 => p \notin DOMAIN pool'
               /\ ~loc[t].us_success /\ down >= 30
                    => p \in DOMAIN pool' /\ pool'[p] = down
               /\ \A q \in PoolCatalog \ {p} :
                    /\ q \in DOMAIN pool' <=> q \in DOMAIN pool
                    /\ q \in DOMAIN pool => pool'[q] = pool[q]]_vars

\* one endpoint was removed by a failure, the other was brought to the floor
\* and has had a success since
C23_Witness ==
  /\ Cardinality(DOMAIN pool) = 1
  /\ \E q \in DOMAIN pool : pool[q] = ScoreFloor + SuccessBonus
  /\ pc[Fetcher] = "idle"


\* ---------------------------------------------------------------- C24
HardFailures == {"rejected", "exception"}

\* the step that ends an attempt of get_soup_form_url with a status other
\* than 200, a captcha page or an exception of session.get
HardFailureStep ==
  /\ pc[Fetcher] = "f_got"
  /\ loc[Fetcher].ret # NoProxy
  /\ Len(fcall'.kinds) = Len(fcall.kinds) + 1
  /\ fcall'.kinds[Len(fcall'.kinds)] \in HardFailures

\* C24: after an attempt through proxy P that ends with a non-200 status or a
\* transport error, P is absent from the pool whatever its score was, every
\* other endpoint keeps its score, and when P was already absent the pool is
\* left as it was.
C24_HardFailureEvicts ==
  [][HardFailureStep =>
       LET P == loc[Fetcher].ret IN
         /\ P \notin DOMAIN pool'
         /\ DOMAIN pool' = DOMAIN pool \ {P}
         /\ \A q \in DOMAIN pool' : pool'[q] = pool[q]
         /\ P \notin DOMAIN pool => pool' = pool]_vars

\* an attempt has ended with a hard failure, its proxy is gone and the other
\* endpoints are still there
C24_Witness ==
  /\ pc[Fetcher] = "f_acquire"
  /\ Len(fcall.kinds) = 1
  /\ fcall.kinds[1] \in HardFailures
  /\ fcall.used \cap DOMAIN pool = {}
  /\ count(pool) = fcall.before - 1
  /\ count(pool) > 0


\* ---------------------------------------------------------------- C25
\* the step that ends an attempt of get_soup_form_url whose 200 response has
\* no "listitem" and holds a captcha marker
AntiBotStep ==
  /\ pc[Fetcher] = "f_got"
  /\ loc[Fetcher].ret # NoProxy
  /\ Len(fcall'.kinds) = Len(fcall.kinds) + 1
  /\ fcall'.kinds[Len(fcall'.kinds)] = "captcha"

C25_AntiBotEvicts ==
  [][AntiBotStep =>
       /\ pool' = remove_proxy(pool, loc[Fetcher].ret)
       /\ pc'[Fetcher] = IF fcall.attempt < FetchAttempts THEN "f_acquire" ELSE "f_end"]_vars

\* a nickname mismatch found by get_total_pages is penalized by update_score:
\* the pool after the attempt is the pool before it with one endpoint of the
\* catalog 10 points lower, or gone when that takes it below 30
C25_ProbePenalizes ==
  [][(probe.pc = "run" /\ probe'.last = "antibot" /\ probe'.penalties = probe.penalties + 1)
       => \E p \in catalog : pool' = update_score(pool, p, FALSE)]_vars


\* ---------------------------------------------------------------- C26
\* the step that ends an attempt of get_soup_form_url whose 200 response has
\* neither "listitem" nor a captcha marker
NoDataStep ==
  /\ pc[Fetcher] = "f_got"
  /\ loc[Fetcher].ret # NoProxy
  /\ Len(fcall'.kinds) = Len(fcall.kinds) + 1
  /\ fcall'.kinds[Len(fcall'.kinds)] = "nodata"

\* C26: an attempt that gets a 200 response without content and without an
\* anti-bot marker leaves the pool as it was, the proxy used keeping its
\* score, and the fetch goes on with the next attempt (after the third attempt
\* it returns without a page).
C26_NoDataNeutral ==
  [][NoDataStep =>
       /\ pool' = pool
       /\ IF fcall.attempt < FetchAttempts
          THEN /\ pc'[Fetcher] = "f_acquire"
               /\ fcall'.attempt = fcall.attempt + 1
               /\ fcall'.out = ""
          ELSE /\ pc'[Fetcher] = "f_end"
               /\ fcall'.out = "none"]_vars

\* the first attempt got no data: its proxy is in the pool and the second
\* attempt is about to start
C26_Witness ==
  /\ pc[Fetcher] = "f_acquire"
  /\ fcall.kinds = <<"nodata">>
  /\ fcall.attempt = 2
  /\ fcall.used \subseteq DOMAIN pool
  /\ count(pool) = fcall.before


\* ---------------------------------------------------------------- C27
\* the first step of a refill_pool call
RefillStartStep == pc[Fetcher] = "rf_start" /\ pc'[Fetcher] # "rf_start"

\* C27: a refill_pool call that starts with count >= max_count returns at
\* once and inserts nothing; a call inserts one endpoint at a time, only while
\* count is below both its target and max_count, and returns after the
\* insertion that brings count to the target or to max_count; so no insertion
\* of a refill leaves more than max_count endpoints.
C27_RefillBounded ==
  [][/\ (RefillStartStep /\ count(pool) >= max_count)
          => (pool' = pool /\ pc'[Fetcher] = "idle")
     /\ pool' # pool
          => /\ pc[Fetcher] = "rf_verify"
             /\ count(pool) < loc[Fetcher].rf_target
             /\ count(pool) < max_count
             /\ count(pool') = count(pool) + 1
             /\ count(pool') <= max_count
     /\ (pc[Fetcher] = "rf_count"
           /\ (count(pool) >= loc[Fetcher].rf_target \/ count(pool) >= max_count))
          => (pool' = pool /\ pc'[Fetcher] = "idle")]_vars

\* a refill with a target above max_count has returned with the pool at
\* max_count while candidates were left
C27_Witness ==
  /\ pc[Fetcher] = "idle"
  /\ loc[Fetcher].rf_target = max_count + 1
  /\ count(pool) = max_count
  /\ catalog \ DOMAIN pool # {}


\* ---------------------------------------------------------------- C28
\* the score of the k-th best endpoint of h
KthScore(h, k) ==
  CHOOSE s \in {h[f] : f \in DOMAIN h} :
    /\ Cardinality({f \in DOMAIN h : h[f] > s}) < k
    /\ Cardinality({f \in DOMAIN h : h[f] >= s}) >= k

\* the step of get_random_proxy that reads the pool with get_all and chooses
PickStep == pc[Fetcher] = "grp_pick" /\ pc'[Fetcher] # "grp_pick" /\ DOMAIN pool # {}

\* C28: the endpoint get_random_proxy returns is in the pool it read; when that
\* pool holds n > 10 endpoints its score is at least the score of the
\* floor(n/2)-th best, so fewer than floor(n/2) endpoints score strictly
\* higher; when the pool holds 1 to 10 endpoints every one of them can be
\* returned.
C28_AcquireTopHalf ==
  [][PickStep =>
       LET n == count(pool)
           e == loc'[Fetcher].ret
       IN /\ e \in DOMAIN pool
          /\ n > TopHalfMin =>
               /\ pool[e] >= KthScore(pool, n \div 2)
               /\ Cardinality({f \in DOMAIN pool : pool[f] > pool[e]}) < n \div 2
          /\ n <= TopHalfMin => Candidates(pool) = DOMAIN pool]_vars

\* eleven endpoints, six of them at the top score: an endpoint at the top
\* score has been returned and the five at the floor cannot be
C28_Witness ==
  /\ pc[Fetcher] = "grp_done"
  /\ count(pool) = TopHalfMin + 1
  /\ Cardinality({f \in DOMAIN pool : pool[f] = ScoreMax}) = 6
  /\ loc[Fetcher].ret \in DOMAIN pool
  /\ pool[loc[Fetcher].ret] = ScoreMax
  /\ Candidates(pool) = {f \in DOMAIN pool : pool[f] = ScoreMax}


\* ---------------------------------------------------------------- C29
\* the running or finished call of _crawl_single_page is for a last page
OnLastPage == pw.pc \in {"run", "done"} /\ is_last_page(pw.page, pw.count_)

EmptySuccess == ListResult({}, FALSE)

\* C29: on a last page (page * 80 >= total_count > 0) an empty result of
\* get_data (None or []) is retried twice and never counts as a failed round:
\* while the call runs, the empty results so far are the local retries made;
\* the third empty result ends the call with [], a list that main consumes as
\* a batch with new_count = 0; the call returns None only after max_retries
\* rounds ended by an exception.
C29_LastPageTolerance ==
  OnLastPage =>
    /\ pw.empties <= EmptyRetries + 1
    /\ pw.pc = "run" => pw.empty_retries = pw.empties
    /\ pw.empties = EmptyRetries + 1
         => (pw.pc = "done" /\ pw.ret = EmptySuccess /\ pw.empty_retries = EmptyRetries)
    /\ (pw.pc = "done" /\ Falsy(pw.ret) /\ pw.ret # NoneResult)
         => (pw.ret = EmptySuccess /\ pw.empties = EmptyRetries + 1)
    /\ (pw.pc = "done" /\ pw.ret = NoneResult)
         => (pw.retry_count = max_retries /\ pw.empties <= EmptyRetries)

\* three fetches of a last page, all empty: the call has returned []
C29_Witness ==
  /\ OnLastPage
  /\ pw.pc = "done"
  /\ pw.fetches = EmptyRetries + 1
  /\ pw.empties = EmptyRetries + 1
  /\ pw.retry_count = 0
  /\ pw.ret = EmptySuccess


\* ---------------------------------------------------------------- C30
\* payloads with an article list whose count is off expected by d, above or
\* below, or that have no count
CountPayloads(expected) ==
  {[has_list |-> TRUE, has_re |-> TRUE, marker |-> "other", has_count |-> hc,
    count |-> c, ids |-> RecordIds, nick_ok |-> TRUE] :
      hc \in BOOLEAN,
      c \in {expected + d : d \in {0, CountTolerance, CountTolerance + 1}}
            \cup {expected - d : d \in {CountTolerance, CountTolerance + 1}}}

\* the latest fetch of the running call came to the count check
Checked == pw.pc \in {"run", "done"} /\ pw.dev # NoDev

\* C30: with expected_total_count > 0 get_data raises the content-mismatch
\* exception exactly when abs(page_count - expected_total_count) > 100, a
\* deviation of 100 being accepted; with expected_total_count = 0 no page is
\* rejected by the count check.  The first conjunct is about the body of
\* get_data on every payload, the others about the call that has just fetched
\* a payload with the recorded deviation.
C30_CountBoundary ==
  /\ \A expected \in ExpectedCounts : \A pl \in CountPayloads(expected) :
       (get_data_body("soup", pl, expected) = RaiseCC)
         <=> (expected > 0 /\ Deviation(pl, expected) > CountTolerance)
  /\ Checked =>
       /\ (pw.count_ > 0 /\ pw.dev > CountTolerance)
            => \/ pw.pc = "run" /\ pw.tn_attempt > 1 /\ pw.devs > 0
               \/ pw.pc = "done" /\ pw.ret = NoneResult /\ pw.retry_count = max_retries
       /\ (pw.count_ = 0 \/ pw.dev <= CountTolerance)
            => pw.pc = "done" /\ pw.ret.kind = "list"

\* a page whose count is off by exactly 100 has been accepted
C30_Witness ==
  /\ pw.pc = "done"
  /\ pw.count_ > 0
  /\ pw.dev = CountTolerance
  /\ pw.ret.kind = "list"
  /\ pw.ret.ids # {}
  /\ pw.devs = 0

\* a page whose count is off by 101 has been rejected and is fetched again
C30_WitnessRejected ==
  /\ pw.pc = "run"
  /\ pw.count_ > 0
  /\ pw.dev = CountTolerance + 1
  /\ pw.devs = 1
  /\ pw.tn_attempt = 2


\* ---------------------------------------------------------------- C31
\* main has gone through the write and the guard for a page
WriteStep ==
  /\ Len(consumeLog') = Len(consumeLog) + 1
  /\ consumeLog'[Len(consumeLog')].kind = "batch"

\* C31: a failed write never ends the run: when insert_many refuses some
\* documents as duplicates new_count is the number of documents that were
\* inserted, when it fails with another error new_count is 0, and in both
\* cases the duplicate counter is updated with that new_count and the loop
\* goes to the next page, or stops the pass when the counter has reached the
\* threshold.
C31_WriteFailureNotFatal ==
  [][WriteStep =>
       LET new_count == consumeLog'[Len(consumeLog')].new_count IN
         /\ wr'.kind = "written"
              => /\ new_count = Cardinality(Stored(col') \ Stored(col))
                 /\ new_count = Cardinality(Keys(wr'.docs) \ Stored(col))
         /\ wr'.kind \in {"failed", "none"} => new_count = 0
         /\ consecutive_duplicate_pages'
              = IF new_count = 0 THEN consecutive_duplicate_pages + 1 ELSE 0
         /\ IF consecutive_duplicate_pages' >= duplicate_page_threshold
            THEN main_pc' = "finished" /\ should_stop'
            ELSE main_pc' = "consume" /\ cur' = cur + 1 /\ ~should_stop']_vars

\* a batch of which one document was refused and one inserted: new_count is
\* 1 and the loop is at the next page
C31_Witness ==
  /\ main_pc = "consume"
  /\ wr.kind = "written"
  /\ Len(wr.docs) = 2
  /\ wr.new_count = 1
  /\ Cardinality(Keys(wr.docs)) = 2
  /\ Len(consumeLog) > 0
  /\ consumeLog[Len(consumeLog)].new_count = 1
  /\ cur = Len(consumeLog) + 1
  /\ consecutive_duplicate_pages = 0

\* a write that failed after one document was stored: new_count is 0, the
\* counter went up and the loop is at the next page
C31_WitnessFailed ==
  /\ main_pc = "consume"
  /\ wr.kind = "failed"
  /\ Stored(col) # Stored(wr.before)
  /\ consumeLog[Len(consumeLog)].new_count = 0
  /\ consecutive_duplicate_pages = 1
  /\ cur = Len(consumeLog) + 1


\* ---------------------------------------------------------------- C32
\* C32: in a call of main the content types are probed in the order news,
\* report, notice, each once; a probe that returns total_pages = 0 dispatches
\* no page and any other probe dispatches total_pages pages; a pass runs only
\* for the latest type probed; and main returns only when all three have
\* been probed, whether or not a pass before was stopped early or had failed
\* pages.
C32_TypesInOrder ==
  /\ Len(typeLog) <= Len(content_types)
  /\ \A i \in DOMAIN typeLog :
       /\ typeLog[i].type = content_types[i]
       /\ typeLog[i].pages = 0 => typeLog[i].dispatched = 0
       /\ typeLog[i].pages > 0 => typeLog[i].dispatched = typeLog[i].pages
       /\ (typeLog[i].stopped \/ typeLog[i].failed) => typeLog[i].pages > 0
  /\ main_pc \in {"consume", "finished"}
       => /\ typeLog # <<>>
          /\ typeLog[Len(typeLog)].pages = total_pages
          /\ total_pages > 0
  /\ main_pc = "returned" => Len(typeLog) = Len(content_types)

\* main has returned after three probes: news was stopped early, report had a
\* failed page, notice was skipped
C32_Witness ==
  /\ main_pc = "returned"
  /\ Len(typeLog) = 3
  /\ typeLog[1].stopped
  /\ typeLog[1].dispatched = MaxPages
  /\ typeLog[2].failed
  /\ typeLog[3].pages = 0


\* ---------------------------------------------------------------- C33
\* main skips the page whose worker returned None
SkipStep ==
  /\ Len(consumeLog') = Len(consumeLog) + 1
  /\ consumeLog'[Len(consumeLog')].kind = "skip"

\* the entries i < j of the log are batches without a new record and every
\* entry between them is a skipped page
EmptyPair(log, i, j) ==
  /\ i < j
  /\ log[i].kind = "batch" /\ log[i].new_count = 0
  /\ log[j].kind = "batch" /\ log[j].new_count = 0
  /\ \A k \in (i + 1)..(j - 1) : log[k].kind = "skip"

\* C33: skipping a failed page leaves the duplicate counter, the stop flag and
\* the store as they are and moves to the next page; so two pages without a
\* new record with nothing but failed pages between them reach the threshold
\* and stop the pass.
C33_FailedPageKeepsCounter ==
  /\ [][SkipStep =>
          /\ consecutive_duplicate_pages' = consecutive_duplicate_pages
          /\ should_stop' = should_stop
          /\ store' = store
          /\ main_pc' = main_pc
          /\ cur' = cur + 1]_vars
  /\ [](\A j \in DOMAIN consumeLog :
          (\E i \in DOMAIN consumeLog : EmptyPair(consumeLog, i, j))
            => (should_stop /\ j = Len(consumeLog)))

\* page 1 gave no new record, page 2 failed, page 3 gave no new record: the
\* pass has stopped
C33_Witness ==
  /\ Len(consumeLog) = 3
  /\ EmptyPair(consumeLog, 1, 3)
  /\ consumeLog[2].kind = "skip"
  /\ consecutive_duplicate_pages = duplicate_page_threshold
  /\ should_stop
  /\ main_pc = "finished"


\* ---------------------------------------------------------------- C34
\* C34: with no refill and no verification running, an endpoint that is
\* absent from the pool stays absent, whatever update_score and remove_proxy
\* calls overlap.
C34_RemovedStaysAbsent ==
  [][DOMAIN pool' \subseteq DOMAIN pool]_vars

\* update_score on an endpoint whose record hget does not find changes
\* nothing
C34_AbsentUpdateNoOp ==
  [][(pc[Fetcher] = "idle" /\ pc'[Fetcher] = "idle") =>
       \A p \in catalog \ DOMAIN pool : p \notin DOMAIN pool']_vars


\* ------------------------------------------------------ pass termination
MaxGetDataCalls == EmptyRetries + max_retries

\* the call of _crawl_single_page for page p has returned
Returned(p) == pw[p].pc \in {"done", "returned"}

\* the same of a page that may not be one of the pass
InFlight(p) == IF p \in DOMAIN fut THEN fut[p] = "running" ELSE FALSE

HasReturned(p) == IF p \in DOMAIN pw THEN Returned(p) ELSE FALSE

\* the consuming loop is over and no worker of the pass is left running: the
\* executor's with block can exit
PassOver == main_pc = "finished" /\ Running = {}

\* page p was still running when the stop flag was set: cancel() has no
\* effect on it, it runs to its end and its result is never taken
Discarded(p) == should_stop /\ p > cur /\ fut[p] = "done"

\* C35 as stated: no call of _crawl_single_page makes more than 5 get_data
\* calls, each returns a list or None, and every pass comes to an end at which
\* each dispatched page has been consumed or cancelled.
C35_ConsumedOrCancelled ==
  /\ [](\A p \in DOMAIN pw : /\ pw[p].calls <= MaxGetDataCalls
                             /\ pw[p].pc = "done" => pw[p].ret.kind \in {"list", "none"})
  /\ <>(PassOver /\ \A p \in DOMAIN fut : p \in Consumed \/ fut[p] = "cancelled")

\* C35 amended: the bound of 5 get_data calls and the two kinds of result
\* hold, every started call returns, and every pass comes to an end at which
\* each dispatched page has been consumed, cancelled before it started, or
\* run to its end and discarded because it was in flight at the stop.
C35_PassTerminates ==
  /\ [](\A p \in DOMAIN pw : /\ pw[p].calls <= MaxGetDataCalls
                             /\ pw[p].pc = "done" => pw[p].ret.kind \in {"list", "none"}
                             /\ pw[p].pc = "returned" => res[p].kind \in {"list", "none"})
  /\ \A p \in 1..MaxPages : InFlight(p) ~> HasReturned(p)
  /\ <>[](PassOver /\ \A p \in DOMAIN fut :
                        p \in Consumed \/ fut[p] = "cancelled" \/ Discarded(p))

\* the pass is over, and a page that was in flight at the stop has returned
\* after all 5 get_data calls without being consumed
C35_Witness ==
  /\ PassOver
  /\ \E p \in DOMAIN fut :
       /\ Discarded(p)
       /\ p \notin Consumed
       /\ pw[p].calls = MaxGetDataCalls


\* ----------------------------------------------------- the two validators
BothChecked == probe.pc = "probed"

VerifyAccepted == TestProxy \in DOMAIN pool

ProbeAccepted == probe.last = "valid"

\* C36: verify_proxy accepts a body exactly when get_total_pages treats it as
\* valid; a body without a count field, or with a nickname that does not
\* conform, is accepted by neither.
C36_ValidatorsAgree ==
  BothChecked
    => /\ VerifyAccepted <=> ProbeAccepted
       /\ ~probe.pl.has_count => (~VerifyAccepted /\ ~ProbeAccepted)
       /\ (probe.pl.has_items /\ ~probe.pl.nick_ok) => (~VerifyAccepted /\ ~ProbeAccepted)

\* what holds over bodies whose count, when there is one, is an integer:
\* whatever verify_proxy accepts the probe accepts, neither
\* accepts a nickname that does not conform, and the two differ exactly on
\* the bodies whose article_list has no count field and no such nickname
C36_AgreeButForCount ==
  BothChecked
    => /\ VerifyAccepted => ProbeAccepted
       /\ (probe.pl.has_items /\ ~probe.pl.nick_ok) => (~VerifyAccepted /\ ~ProbeAccepted)
       /\ (ProbeAccepted /\ ~VerifyAccepted) <=>
            (probe.pl.has_list /\ ~probe.pl.has_count
               /\ (probe.pl.has_items => probe.pl.nick_ok))

C36_Witness ==
  /\ BothChecked
  /\ probe.pl.has_list
  /\ probe.pl.has_items
  /\ probe.pl.nick_ok
  /\ ~probe.pl.has_count
  /\ ProbeAccepted
  /\ ~VerifyAccepted


\* ------------------------------------------------- scores during crawling
\* the step in which a fetch attempt returns a valid page
ValidFetchStep ==
  /\ pc[Fetcher] = "f_got"
  /\ pc'[Fetcher] = "f_end"
  /\ fcall'.out = "soup"

\* the step is an insertion by the refill that runs inside the fetch
RefillInsertStep == pc[Fetcher] = "rf_verify" /\ pc'[Fetcher] = "rf_count"

\* C37: the attempt that returns a valid page leaves the pool as it was, and
\* in no step of a fetch or of the probe's check does the score of an endpoint
\* rise, or an absent endpoint come back, unless the step is an insertion of a
\* refill.
C37_ScoreNeverRises ==
  [][/\ ValidFetchStep => pool' = pool
     /\ \A p \in DOMAIN pool' :
          (p \notin DOMAIN pool \/ pool'[p] > pool[p]) => RefillInsertStep]_vars

\* the probe has penalized the worn endpoint that had served the valid page:
\* it is gone; or a fresh one: it has lost 10 points
C37_Witness ==
  /\ pc[Fetcher] = "f_penalized"
  /\ fcall.out = "soup"
  /\ fcall.proxy \in DOMAIN pool
  /\ pool[fcall.proxy] = ScoreMax - FailurePenalty


\* ------------------------------------------------------- wear to eviction
\* ceil((s - 29) / 10)
FailuresToEvict(s) == CeilDiv(s - (ScoreFloor - 1), FailurePenalty)

Evicted == TestProxy \notin DOMAIN pool

\* C38: an endpoint inserted with a score s in 50..100 that gets only failure
\* updates is in the pool, 10 points lower after each, until the call number
\* ceil((s - 29) / 10) removes it, which comes; that is call 8 from 100 and
\* call 3 from 50, and no other number is above or below these.
C38_EvictedAfterFailures ==
  /\ [](/\ Evicted <=> probe.penalties >= FailuresToEvict(score0)
        /\ ~Evicted => pool[TestProxy] = score0 - FailurePenalty * probe.penalties
        /\ FailuresToEvict(score0) \in 3..8
        /\ score0 = ScoreMax => FailuresToEvict(score0) = 8
        /\ score0 = VerifyFloor => FailuresToEvict(score0) = 3)
  /\ <>[]Evicted

\* the 8th failure has removed an endpoint that was inserted with 100
C38_Witness ==
  /\ score0 = ScoreMax
  /\ probe.penalties = 8
  /\ Evicted

\* the 3rd failure has removed an endpoint that was inserted with 50
C38_WitnessFloor ==
  /\ score0 = VerifyFloor
  /\ probe.penalties = 3
  /\ Evicted


\* ---------------------------------------------------------- the last page
\* the pages of the pass that are treated as the last page
LastPages == {p \in 1..total_pages : is_last_page(p, total_count)}

\* C39: in a pass with total_count > 0 the worker of page total_pages, and
\* no other, computes is_last_page = True, so exactly one dispatched page is
\* the last page; in the fallback pass (1, 0) no page is.
C39_OneLastPage ==
  /\ pw.pc = "run" => (pw.is_last_page <=> (total_count > 0 /\ pw.page = total_pages))
  /\ total_count > 0 => LastPages = {total_pages}
  /\ total_count = 0 => LastPages = {}

\* page 4 of a feed of 241 records, one record beyond the third full page,
\* is running as the last page
C39_Witness ==
  /\ pw.pc = "run"
  /\ total_count = MaxPages * PageSize + 1
  /\ pw.page = total_pages
  /\ pw.is_last_page
  /\ \E q \in DOMAIN fut : q < pw.page /\ fut[q] = "done"

\* the one page of the fallback pass is running and is not the last page
C39_WitnessFallback ==
  /\ pw.pc = "run"
  /\ total_count = 0
  /\ pw.page = total_pages
  /\ ~pw.is_last_page

====
